---- MODULE Spec2Model ----
(***************************************************************************)
(* Cart free-gift reconciliation of the Shopify theme: the final           *)
(* CartFreeGifts custom element of assets/cart-free-gifts.js, the platform *)
(* cart it mutates through /cart/add.js, /cart/change.js and               *)
(* /cart/update.js, its debounce and initial-load timers and its           *)
(* quantity-lock guard.                                                    *)
(*                                                                         *)
(* Every await of the source is one action: the platform serves the        *)
(* pending request and the continuation runs up to the next await.         *)
(* Variant ids are strings of digits on both sides of every comparison     *)
(* (the source compares variant_id.toString() with the configured string). *)
(***************************************************************************)
EXTENDS Integers, Sequences, FiniteSets, TLC

(***************************************************************************)
(* Bounds of the model.                                                    *)
(***************************************************************************)
\* lines of an initial cart, and the length up to which a customer adds lines
MaxLines == 3
\* largest quantity a customer sets on a line
MaxQty == 2
\* timer callbacks of the component in flight at the same time
MaxProcs == 2
\* pending initial-load timers (one per connectedCallback)
MaxLoadTimers == 1
\* cart mutations made by the customer or by other components
MaxExt == 1

(***************************************************************************)
(* Configuration tables of the source.                                     *)
(***************************************************************************)
FREE_GIFT_CONFIG ==
  [gift5000 |-> [variantId |-> "55378709479497", threshold |-> 500000, tag |-> "free-gift-5000"],
   gift8000 |-> [variantId |-> "55378884591689", threshold |-> 800000, tag |-> "free-gift-8000"]]

GiftKeys == {"gift5000", "gift8000"}

SOURCE_TAG == "cart-free-gifts"

milestone5000 == 500000
milestone8000 == 800000

\* the debounce delay and the initial-load delay, in milliseconds
DEBOUNCE_MS == 500
INITIAL_LOAD_MS == 100

Null == [null |-> TRUE]

\* JavaScript a || b on numbers: a unless it is 0
Or0(a, b) == IF a # 0 THEN a ELSE b

(***************************************************************************)
(* The platform cart.  A line is                                           *)
(*   [variant_id, quantity, price, final_price, auto]                      *)
(* with unit prices in minor currency units; auto is the _auto_gift line   *)
(* property.  Lines with the same variant and the same properties are one  *)
(* line.                                                                   *)
(***************************************************************************)
PaidKinds ==
  { [variant_id |-> "1001", quantity |-> 1, price |-> 300000, final_price |-> 300000, auto |-> FALSE],
    [variant_id |-> "1002", quantity |-> 1, price |-> 500000, final_price |-> 500000, auto |-> FALSE],
    [variant_id |-> "1003", quantity |-> 1, price |-> 0, final_price |-> 0, auto |-> FALSE] }

\* unit price of a gift variant before any discount
GiftUnitPrice == 100000

GiftLine(k, q, a) ==
  [variant_id |-> FREE_GIFT_CONFIG[k].variantId, quantity |-> q,
   price |-> GiftUnitPrice, final_price |-> GiftUnitPrice, auto |-> a]

\* gift lines as the reconciler adds them, and as a customer can make them
GiftKinds ==
  { GiftLine(k, 1, TRUE) : k \in GiftKeys } \cup
  { GiftLine(k, 2, TRUE) : k \in GiftKeys } \cup
  { GiftLine(k, 1, FALSE) : k \in GiftKeys }

LineKey(it) == <<it.variant_id, it.auto>>

RECURSIVE SeqsUpTo(_, _)
SeqsUpTo(S, n) ==
  IF n = 0 THEN { <<>> }
  ELSE LET shorter == SeqsUpTo(S, n - 1)
       IN shorter \cup { Append(s, x) : s \in { t \in shorter : Len(t) = n - 1 }, x \in S }

DistinctKeys(c) == \A i, j \in 1..Len(c) : i # j => LineKey(c[i]) # LineKey(c[j])

InitCarts == { c \in SeqsUpTo(PaidKinds \cup GiftKinds, MaxLines) : DistinctKeys(c) }

RemoveAt(s, i) == [j \in 1..(Len(s) - 1) |-> IF j < i THEN s[j] ELSE s[j + 1]]

RECURSIVE SumSeq(_)
SumSeq(s) == IF s = <<>> THEN 0 ELSE Head(s) + SumSeq(Tail(s))

SumOver(s, F(_)) == SumSeq([i \in 1..Len(s) |-> F(s[i])])

\* first index of s whose element satisfies P, or 0 (findIndex's -1)
FirstIndex(s, P(_)) ==
  IF \E i \in 1..Len(s) : P(s[i])
  THEN CHOOSE i \in 1..Len(s) : P(s[i]) /\ \A j \in 1..(i - 1) : ~P(s[j])
  ELSE 0

\* POST /cart/add.js, quantity 1: merges into the line with the same variant and
\* properties, else makes a new line, at the top or at the bottom of the cart
PlatformAdd(c, fresh, atTop) ==
  LET same(it) == LineKey(it) = LineKey(fresh)
      i == FirstIndex(c, same)
  IN IF i # 0 THEN [c EXCEPT ![i].quantity = @ + 1]
     ELSE IF atTop THEN <<fresh>> \o c ELSE Append(c, fresh)

\* the line a gift variant makes when added once
GiftItem(variantId, auto) ==
  [variant_id |-> variantId, quantity |-> 1, price |-> GiftUnitPrice,
   final_price |-> GiftUnitPrice, auto |-> auto]

\* POST /cart/change.js: an existing line number is needed
ChangeAccepted(c, line) == line \in 1..Len(c)

PlatformChange(c, line, quantity) ==
  IF ~ChangeAccepted(c, line) THEN c
  ELSE IF quantity = 0 THEN RemoveAt(c, line)
  ELSE [c EXCEPT ![line].quantity = quantity]

\* GET /cart.js
CartJsItem(it) ==
  [variant_id |-> it.variant_id, quantity |-> it.quantity,
   line_price |-> it.price * it.quantity,
   final_line_price |-> it.final_price * it.quantity,
   auto |-> it.auto]

CartJs(c) ==
  LET qty(it) == it.quantity
      fin(it) == it.final_price * it.quantity
  IN [items |-> [i \in 1..Len(c) |-> CartJsItem(c[i])],
      item_count |-> SumOver(c, qty),
      total_price |-> SumOver(c, fin)]

(***************************************************************************)
(* Pure helpers of the component.                                          *)
(***************************************************************************)
isFreeGiftItem(item) ==
  item.variant_id \in { FREE_GIFT_CONFIG.gift5000.variantId, FREE_GIFT_CONFIG.gift8000.variantId }

hasPaidItems(c) ==
  \E i \in 1..Len(c.items) : ~isFreeGiftItem(c.items[i])

calculateCartTotalExcludingFreeGifts(c) ==
  IF "items" \notin DOMAIN c THEN 0
  ELSE LET linePrice(item) ==
             IF isFreeGiftItem(item) THEN 0
             ELSE Or0(item.final_line_price, Or0(item.line_price, 0))
       IN SumOver(c.items, linePrice)

isGiftInCart(c, variantId) ==
  \E i \in 1..Len(c.items) : c.items[i].variant_id = variantId

getDiscountCodeForVariant(variantId) ==
  IF variantId = "55378709479497" THEN "FREEGIFT5000"
  ELSE IF variantId = "55378884591689" THEN "FREEGIFT8000"
  ELSE "null"

\* the progress bar's width in units of 1/30000 percent (100% is 3000000), so
\* that both bands are exact, and the two reached markers
ProgressUnit == (milestone5000 \div 50) * 3

\* #updateMilestones with the second band starting from 0 again (no "50 +")
updateMilestonesNoOffset(cartTotal) ==
  LET progressPercentage ==
        IF cartTotal >= milestone8000 THEN 100 * ProgressUnit
        ELSE IF cartTotal >= milestone5000 THEN
          (cartTotal - milestone5000) * ((50 * ProgressUnit) \div (milestone8000 - milestone5000))
        ELSE
          LET p == cartTotal * ((50 * ProgressUnit) \div milestone5000)
          IN IF p > 50 * ProgressUnit THEN 50 * ProgressUnit ELSE p
  IN [progress |-> progressPercentage,
      reached5000 |-> cartTotal >= milestone5000,
      reached8000 |-> cartTotal >= milestone8000]

\* #updateMilestones with a milestone reached only above it (> for >=)
updateMilestonesAboveOnly(cartTotal) ==
  LET progressPercentage ==
        IF cartTotal >= milestone8000 THEN 100 * ProgressUnit
        ELSE IF cartTotal >= milestone5000 THEN
          LET p == 50 * ProgressUnit
                   + (cartTotal - milestone5000) * ((50 * ProgressUnit) \div (milestone8000 - milestone5000))
          IN IF p > 100 * ProgressUnit THEN 100 * ProgressUnit ELSE p
        ELSE
          LET p == cartTotal * ((50 * ProgressUnit) \div milestone5000)
          IN IF p > 50 * ProgressUnit THEN 50 * ProgressUnit ELSE p
  IN [progress |-> progressPercentage,
      reached5000 |-> cartTotal > milestone5000,
      reached8000 |-> cartTotal > milestone8000]

updateMilestones(cartTotal) ==
  LET progressPercentage ==
        IF cartTotal >= milestone8000 THEN 100 * ProgressUnit
        ELSE IF cartTotal >= milestone5000 THEN
          LET p == 50 * ProgressUnit
                   + (cartTotal - milestone5000) * ((50 * ProgressUnit) \div (milestone8000 - milestone5000))
          IN IF p > 100 * ProgressUnit THEN 100 * ProgressUnit ELSE p
        ELSE
          LET p == cartTotal * ((50 * ProgressUnit) \div milestone5000)
          IN IF p > 50 * ProgressUnit THEN 50 * ProgressUnit ELSE p
  IN [progress |-> progressPercentage,
      reached5000 |-> cartTotal >= milestone5000,
      reached8000 |-> cartTotal >= milestone8000]

(***************************************************************************)
(* Decisions of one reconciliation pass, all taken on the snapshot fetched *)
(* at its start.                                                           *)
(***************************************************************************)
\* #handleGift with the threshold itself not qualifying (> for >=)
handleGiftAboveOnly(c, giftConfig, cartTotal) ==
  LET inCart == isGiftInCart(c, giftConfig.variantId)
      shouldHaveGift == cartTotal > giftConfig.threshold
  IN IF shouldHaveGift /\ ~inCart THEN "add"
     ELSE IF ~shouldHaveGift /\ inCart THEN "remove"
     ELSE "none"

\* #handleGift giving the gift of the highest threshold reached alone
handleGiftHighestOnly(c, giftConfig, cartTotal) ==
  LET inCart == isGiftInCart(c, giftConfig.variantId)
      shouldHaveGift ==
        /\ cartTotal >= giftConfig.threshold
        /\ \A k \in GiftKeys :
             FREE_GIFT_CONFIG[k].threshold > giftConfig.threshold
               => cartTotal < FREE_GIFT_CONFIG[k].threshold
  IN IF shouldHaveGift /\ ~inCart THEN "add"
     ELSE IF ~shouldHaveGift /\ inCart THEN "remove"
     ELSE "none"

\* #handleGift without its else branch: a gift is never removed
handleGiftNeverRemoves(c, giftConfig, cartTotal) ==
  LET inCart == isGiftInCart(c, giftConfig.variantId)
      shouldHaveGift == cartTotal >= giftConfig.threshold
  IN IF shouldHaveGift /\ ~inCart THEN "add" ELSE "none"

\* #handleGift: what is done for one configured gift
handleGift(c, giftConfig, cartTotal) ==
  LET inCart == isGiftInCart(c, giftConfig.variantId)
      shouldHaveGift == cartTotal >= giftConfig.threshold
  IN IF shouldHaveGift /\ ~inCart THEN "add"
     ELSE IF ~shouldHaveGift /\ inCart THEN "remove"
     ELSE "none"

\* #removeGiftFromCart: the line number sent to /cart/change.js, item.line
\* being absent from /cart.js items (giftItem.line || giftItemIndex + 1)
lineNumber(c, variantId) ==
  LET isVariant(item) == item.variant_id = variantId
  IN FirstIndex(c.items, isVariant)

\* #removeAllFreeGifts: the variants it removes, in cart order
removeAllFreeGifts(c) ==
  LET gifts == SelectSeq(c.items, isFreeGiftItem)
  IN [i \in 1..Len(gifts) |-> gifts[i].variant_id]

\* #checkAndUpdateGifts after the fetch: the branch taken
planPass(c) ==
  LET cartItemCount == Or0(c.item_count, Len(c.items))
      cartTotal == calculateCartTotalExcludingFreeGifts(c)
      removeAll == [mode |-> "removeAll", todo |-> removeAllFreeGifts(c), total |-> 0]
  IN IF Len(c.items) = 0 \/ cartItemCount = 0 THEN removeAll
     ELSE IF ~hasPaidItems(c) THEN removeAll
     ELSE IF cartTotal <= 0 THEN removeAll
     ELSE [mode |-> "gifts", todo |-> <<"gift8000", "gift5000">>, total |-> cartTotal]

\* the next request of the pass, or its end
RECURSIVE NextOp(_, _, _, _)
NextOp(c, mode, todo, cartTotal) ==
  IF todo = <<>> THEN [pc |-> "end", cur |-> "none", line |-> 0, todo |-> <<>>]
  ELSE IF mode = "removeAll"
  THEN [pc |-> "change", cur |-> Head(todo), line |-> lineNumber(c, Head(todo)), todo |-> Tail(todo)]
  ELSE LET giftConfig == FREE_GIFT_CONFIG[Head(todo)]
           what == handleGift(c, giftConfig, cartTotal)
       IN IF what = "add"
          THEN [pc |-> "add", cur |-> giftConfig.variantId, line |-> 0, todo |-> Tail(todo)]
          ELSE IF what = "remove"
          THEN [pc |-> "change", cur |-> giftConfig.variantId,
                line |-> lineNumber(c, giftConfig.variantId), todo |-> Tail(todo)]
          ELSE NextOp(c, mode, Tail(todo), cartTotal)

(***************************************************************************)
(* State.                                                                  *)
(***************************************************************************)
VARIABLES
  cart,               \* the platform cart: a sequence of lines
  discount,           \* the discount codes applied to the platform cart
  connected,          \* the element is in the document (its listeners are registered)
  isProcessing,       \* #isProcessing
  processingTimeout,  \* #processingTimeout: "null", "live" (its timer is pending) or "stale"
  orphanTimers,       \* pending debounce timers #processingTimeout no longer refers to
  loadTimers,         \* pending initial-load timers of connectedCallback
  procs,              \* the timer callbacks in flight
  qh,                 \* the #handleQuantityUpdate call in flight
  milestones,         \* what #updateMilestones last wrote to the page
  emitted,            \* the events dispatched by the last step
  uncaught,           \* handlers out of which an exception escaped
  lastPass,           \* record of the pass that ended last
  quiet,              \* how the last pass ended: "none", "ok", "failed", or "touched" once
                      \* the cart was changed by others since
  ext,                \* cart mutations by others still allowed
  burst,              \* the current burst of notifications and the calls it caused
  lastQ,              \* record of the #handleQuantityUpdate call that ended last
  fn,                 \* the calls of the pure functions: their inputs and results
  sp,                 \* the cart-suggested-products component
  pm                  \* the free gift manager of part_000 (the polling version)

vars == <<cart, discount, connected, isProcessing, processingTimeout, orphanTimers,
          loadTimers, procs, qh, milestones, emitted, uncaught, lastPass, quiet, ext,
          burst, lastQ, fn, sp, pm>>

Procs == 1..MaxProcs

PassPcs == {"fetch", "add", "discFetch", "discUpdate", "addRefetch", "change", "rmRefetch", "sleep"}

Idle ==
  [pc |-> "idle", kind |-> "none", snap |-> Null, mode |-> "none", todo |-> <<>>,
   cur |-> "none", line |-> 0, total |-> 0, clean |-> TRUE, allOk |-> TRUE, reqs |-> 0,
   prev |-> "none", dropped |-> FALSE, log |-> <<>>]

\* the debounce callback after its await of #checkAndUpdateGifts: it fetches the cart
TailProc == [Idle EXCEPT !.pc = "tail", !.kind = "debounce"]

\* the same when its call of #checkAndUpdateGifts returned at the guard
DroppedProc == [Idle EXCEPT !.pc = "tail", !.kind = "dropped"]

NoPass ==
  [done |-> FALSE, clean |-> FALSE, allOk |-> FALSE, snap |-> Null, endCart |-> <<>>,
   reqs |-> 0, prev |-> "none", dropped |-> FALSE, log |-> <<>>]

QIdle == [pc |-> "idle", line |-> 0, quantity |-> 0, prevented |-> FALSE, onGift |-> FALSE,
          clean |-> TRUE, atReturn |-> FALSE]

NoQ == [done |-> FALSE, line |-> 0, quantity |-> 0, onGift |-> FALSE, sent |-> FALSE,
        prevented |-> FALSE, clean |-> FALSE, endQuantity |-> 0, atReturn |-> FALSE]

\* a burst: the notifications that arrived while a debounce timer was pending (n,
\* counted up to 2) and the calls of #checkAndUpdateGifts it caused
NoBurst == [active |-> FALSE, n |-> 0, calls |-> 0]

InitWith(c) ==
  /\ cart = c
  /\ discount = {}
  /\ connected = FALSE
  /\ isProcessing = FALSE
  /\ processingTimeout = "null"
  /\ orphanTimers = 0
  /\ loadTimers = 0
  /\ procs = [i \in Procs |-> Idle]
  /\ qh = QIdle
  /\ milestones = updateMilestones(0)
  /\ emitted = <<>>
  /\ uncaught = {}
  /\ lastPass = NoPass
  /\ quiet = "none"
  /\ ext = MaxExt
  /\ burst = NoBurst
  /\ lastQ = NoQ

\* no pure function is under test, and the other programs are not on the page
NoFn == [kind |-> "none", s1 |-> 0, s2 |-> 0, n |-> 0, first |-> updateMilestones(0), total |-> 0]

NoSp == [on |-> FALSE]

MaxRuns == 2

Runs == 1..MaxRuns

thresholds == [gift5000 |-> 500000, gift8000 |-> 800000]

fallbackVariantIds == [gift5000 |-> "55378709479497", gift8000 |-> "55378884591689"]

PmIdle ==
  [pc |-> "idle", kind |-> "none", given |-> Null, snap |-> Null, todo |-> <<>>,
   cur |-> "none", line |-> 0, allOk |-> TRUE, alone |-> TRUE, log |-> <<>>]

PmNoRun ==
  [done |-> FALSE, kind |-> "none", snap |-> Null, endCart |-> <<>>, allOk |-> FALSE,
   alone |-> FALSE, log |-> <<>>]

\* the manager is not on the page
NoPm ==
  [on |-> FALSE, processing |-> FALSE, giftsInCart |-> [k \in GiftKeys |-> 0],
   available |-> [k \in GiftKeys |-> TRUE], loadPending |-> FALSE,
   runs |-> [r \in Runs |-> PmIdle], last |-> PmNoRun]

OthersInit == fn = NoFn /\ sp = NoSp /\ pm = NoPm

\* a step of the cart-free-gifts component leaves the rest alone
OthersIdle == UNCHANGED <<fn, sp, pm>>

\* the carts the concurrent specification starts from: at most one line
SmallCarts == { c \in InitCarts : Len(c) <= 1 }

Init == OthersInit /\ \E c \in SmallCarts : InitWith(c)

\* every cart of at most MaxLines lines
InitPass == OthersInit /\ \E c \in InitCarts : InitWith(c)

InPass(i) == procs[i].pc \in PassPcs

pendingDebounce == orphanTimers + (IF processingTimeout = "live" THEN 1 ELSE 0)

(***************************************************************************)
(* Cart events.  An event is [type, sourceId, source, resource]; source is *)
(* detail.data.source.                                                     *)
(***************************************************************************)
CartAddEvent(data) ==
  [type |-> "cart:update", sourceId |-> SOURCE_TAG, source |-> SOURCE_TAG, resource |-> data]

CartUpdateEvent(data) ==
  [type |-> "cart:update", sourceId |-> SOURCE_TAG, source |-> SOURCE_TAG, resource |-> data]

DiscountUpdateEvent(data) ==
  [type |-> "discount:update", sourceId |-> SOURCE_TAG, source |-> "none", resource |-> data]

\* the response of /cart/add.js is the added line, not a cart: it has no items
AddData(variantId) == [variant_id |-> variantId, quantity |-> 1]

\* the test of the source tag on sourceId alone
isOwnEventBySourceId(ev) == ev.sourceId = SOURCE_TAG

\* no test of the source tag: every event is taken for a foreign one
neverOwnEvent(ev) == FALSE

\* #handleCartUpdate's test of the source tag
isOwnEvent(ev) == ev.sourceId = SOURCE_TAG \/ ev.source = SOURCE_TAG

\* #handleCartUpdate without its clearTimeout: the pending timer stays pending
handleCartUpdateNoClear(ev, st) ==
  IF ev.sourceId = SOURCE_TAG \/ ev.source = SOURCE_TAG
  THEN st
  ELSE [st EXCEPT !.processingTimeout = "live",
                  !.orphanTimers = IF st.processingTimeout = "live" THEN @ + 1 ELSE @,
                  !.burst = IF st.orphanTimers = 0 /\ st.processingTimeout # "live"
                            THEN [active |-> TRUE, n |-> 1, calls |-> 0]
                            ELSE [@ EXCEPT !.n = 2]]

\* #handleCartUpdate on st = [processingTimeout, orphanTimers, milestones, burst]
handleCartUpdate(ev, st) ==
  IF isOwnEvent(ev)
  THEN IF ev.resource # Null
       THEN [st EXCEPT !.milestones =
                         updateMilestones(calculateCartTotalExcludingFreeGifts(ev.resource))]
       ELSE st
  ELSE \* clearTimeout of the pending timer, then a new timer
       [st EXCEPT !.processingTimeout = "live",
                  !.burst = IF st.orphanTimers = 0 /\ st.processingTimeout # "live"
                            THEN [active |-> TRUE, n |-> 1, calls |-> 0]
                            ELSE [@ EXCEPT !.n = 2]]

\* document.dispatchEvent: the component's listener runs if it is registered
Deliver(ev, st) ==
  IF connected /\ ev.type = "cart:update" THEN handleCartUpdate(ev, st) ELSE st

TimerState(ms) ==
  [processingTimeout |-> processingTimeout, orphanTimers |-> orphanTimers,
   milestones |-> ms, burst |-> burst]

\* the timer variables after a step whose listeners left them at st
SetTimers(st) ==
  /\ processingTimeout' = st.processingTimeout
  /\ orphanTimers' = st.orphanTimers
  /\ burst' = st.burst

(***************************************************************************)
(* The element's lifecycle and its timers.                                 *)
(***************************************************************************)
connectedCallback ==
  /\ ~connected
  /\ loadTimers < MaxLoadTimers
  /\ connected' = TRUE
  /\ loadTimers' = loadTimers + 1
  /\ emitted' = <<>>
  /\ UNCHANGED <<cart, discount, isProcessing, processingTimeout, orphanTimers, procs, qh,
                 milestones, uncaught, lastPass, quiet, ext, burst, lastQ>>

disconnectedCallback ==
  /\ connected
  /\ connected' = FALSE
  /\ processingTimeout' = IF processingTimeout = "live" THEN "stale" ELSE processingTimeout
  /\ burst' = IF processingTimeout = "live" /\ orphanTimers = 0
              THEN NoBurst ELSE burst
  /\ emitted' = <<>>
  /\ UNCHANGED <<cart, discount, isProcessing, orphanTimers, loadTimers, procs, qh,
                 milestones, uncaught, lastPass, quiet, ext, lastQ>>

\* a cart event dispatched by another component
ExternalEvents(c) ==
  [type : {"cart:update"}, sourceId : {SOURCE_TAG, "other"}, source : {SOURCE_TAG, "other"},
   resource : {Null, CartJs(c)}]

CartEvent(ev) ==
  /\ connected
  /\ LET st == handleCartUpdate(ev, TimerState(milestones))
     IN SetTimers(st) /\ milestones' = st.milestones
  /\ emitted' = <<>>
  /\ UNCHANGED <<cart, discount, connected, isProcessing, loadTimers, procs, qh, uncaught,
                 lastPass, quiet, ext, lastQ>>

FreeSlot ==
  IF \E i \in Procs : procs[i].pc = "idle"
  THEN CHOOSE i \in Procs : procs[i].pc = "idle" /\ \A j \in 1..(i - 1) : procs[j].pc # "idle"
  ELSE 0

\* no guard: every call starts a pass
neverProcessing == FALSE

\* the guard of #checkAndUpdateGifts
alreadyProcessing == isProcessing

\* #checkAndUpdateGifts up to its first await, called by a timer callback of the
\* given kind; the debounce callback goes on to its own fetch when the call returns
checkAndUpdateGifts(kind) ==
  IF alreadyProcessing
  THEN /\ LET seen == [i \in Procs |-> IF procs[i].pc \in PassPcs
                                        THEN [procs[i] EXCEPT !.dropped = TRUE]
                                        ELSE procs[i]]
          IN IF kind = "debounce"
             THEN FreeSlot # 0 /\ procs' = [seen EXCEPT ![FreeSlot] = DroppedProc]
             ELSE procs' = seen
       /\ UNCHANGED <<isProcessing, lastPass>>
  ELSE /\ FreeSlot # 0
       /\ isProcessing' = TRUE
       /\ lastPass' = NoPass
       /\ procs' = [procs EXCEPT ![FreeSlot] =
                      [Idle EXCEPT !.pc = "fetch", !.kind = kind, !.prev = quiet]]

LoadTimerFires ==
  /\ loadTimers > 0
  /\ loadTimers' = loadTimers - 1
  /\ checkAndUpdateGifts("load")
  /\ emitted' = <<>>
  /\ UNCHANGED <<cart, discount, connected, processingTimeout, orphanTimers, qh, milestones,
                 uncaught, quiet, ext, burst, lastQ>>

DebounceTimerFires ==
  /\ pendingDebounce > 0
  /\ \/ /\ processingTimeout = "live"
        /\ processingTimeout' = "stale"
        /\ UNCHANGED orphanTimers
     \/ /\ orphanTimers > 0
        /\ orphanTimers' = orphanTimers - 1
        /\ UNCHANGED processingTimeout
  /\ burst' = [burst EXCEPT !.calls = IF @ < 2 THEN @ + 1 ELSE @]
  /\ checkAndUpdateGifts("debounce")
  /\ emitted' = <<>>
  /\ UNCHANGED <<cart, discount, connected, loadTimers, qh, milestones, uncaught, quiet, ext,
                 lastQ>>

(***************************************************************************)
(* The reconciliation pass.  Outcomes of a request: "ok", "throw" (network *)
(* error, non-OK cart fetch or malformed JSON: the platform did nothing)   *)
(* and "rejected" (an error payload: status on add, errors on change and   *)
(* update).                                                                *)
(***************************************************************************)
\* the end of a pass without the finally block: a pass that failed keeps the flag
EndPassNoFinally(i, p, ms, c) ==
  /\ isProcessing' = ~p.clean
  /\ milestones' = ms
  /\ lastPass' = [done |-> TRUE, clean |-> p.clean, allOk |-> p.allOk, snap |-> p.snap,
                  endCart |-> c, reqs |-> p.reqs, prev |-> p.prev, dropped |-> p.dropped,
                  log |-> p.log]
  /\ quiet' = IF p.clean /\ p.allOk THEN "ok" ELSE "failed"
  /\ procs' = [procs EXCEPT ![i] = IF p.kind = "debounce"
                                   THEN [Idle EXCEPT !.pc = "tail", !.kind = "debounce"]
                                   ELSE Idle]

\* the end of a pass that runs the triggers dropped meanwhile: it starts over
EndPassQueued(i, p, ms, c) ==
  /\ milestones' = ms
  /\ lastPass' = [done |-> TRUE, clean |-> p.clean, allOk |-> p.allOk, snap |-> p.snap,
                  endCart |-> c, reqs |-> p.reqs, prev |-> p.prev, dropped |-> p.dropped,
                  log |-> p.log]
  /\ quiet' = IF p.clean /\ p.allOk THEN "ok" ELSE "failed"
  /\ IF p.dropped
     THEN /\ isProcessing' = TRUE
          /\ procs' = [procs EXCEPT ![i] = [Idle EXCEPT !.pc = "fetch", !.kind = p.kind]]
     ELSE /\ isProcessing' = FALSE
          /\ procs' = [procs EXCEPT ![i] = IF p.kind = "debounce"
                                           THEN [Idle EXCEPT !.pc = "tail", !.kind = "debounce"]
                                           ELSE Idle]

\* the pass of callback i ends with proc record p, milestones ms and platform cart c
EndPass(i, p, ms, c) ==
  /\ isProcessing' = FALSE
  /\ milestones' = ms
  /\ lastPass' = [done |-> TRUE, clean |-> p.clean, allOk |-> p.allOk, snap |-> p.snap,
                  endCart |-> c, reqs |-> p.reqs, prev |-> p.prev, dropped |-> p.dropped,
                  log |-> p.log]
  /\ quiet' = IF p.clean /\ p.allOk THEN "ok" ELSE "failed"
  /\ procs' = [procs EXCEPT ![i] = IF p.kind = "debounce" THEN TailProc ELSE Idle]

\* the pass goes on after one gift has been dealt with: the next request is sent,
\* or #updateMilestones(cartTotal) and the finally block run
Resume(i, p, ms, c) ==
  LET n == NextOp(p.snap, p.mode, p.todo, p.total)
  IN IF n.pc = "end"
     THEN EndPass(i, p, IF p.mode = "gifts" THEN updateMilestones(p.total) ELSE ms, c)
     ELSE /\ procs' = [procs EXCEPT ![i] =
                         [p EXCEPT !.pc = n.pc, !.cur = n.cur, !.line = n.line,
                                   !.todo = n.todo, !.reqs = @ + 1,
                                   !.log = Append(@, [op |-> n.pc, variantId |-> n.cur,
                                                      line |-> n.line])]]
          /\ milestones' = ms
          /\ UNCHANGED <<isProcessing, lastPass, quiet>>

\* #removeGiftFromCart has returned: #removeAllFreeGifts waits 100 ms, #handleGift returns
AfterRemove(i, p, ms, c) ==
  IF p.mode = "removeAll"
  THEN /\ procs' = [procs EXCEPT ![i] = [p EXCEPT !.pc = "sleep"]]
       /\ milestones' = ms
       /\ UNCHANGED <<isProcessing, lastPass, quiet>>
  ELSE Resume(i, p, ms, c)

\* a request of the pass failed: a network error or a refusal by the platform
Failed(p) == [p EXCEPT !.clean = FALSE, !.allOk = FALSE]

\* const cart = await this.#fetchCart() of #checkAndUpdateGifts, and the branch taken
FetchCartResponse(i) ==
  /\ procs[i].pc = "fetch"
  /\ \E outcome \in {"ok", "throw"} :
       IF outcome = "throw"
       THEN EndPass(i, Failed(procs[i]), milestones, cart)
       ELSE \E c \in {CartJs(cart)} :
              \E plan \in {planPass(c)} :
                \E p \in {[procs[i] EXCEPT !.snap = c, !.mode = plan.mode,
                                            !.todo = plan.todo, !.total = plan.total]} :
                  Resume(i, p, milestones, cart)
  /\ emitted' = <<>>
  /\ UNCHANGED <<cart, discount, connected, processingTimeout, orphanTimers, loadTimers, qh,
                 uncaught, ext, burst, lastQ>>

\* #addGiftToCart without its return on data.status: a refused add goes on to the
\* discount and to the cart event
AddResponseWithoutReturn(i) ==
  /\ procs[i].pc = "add"
  /\ \E outcome \in {"ok", "throw", "rejected"}, atTop \in BOOLEAN :
       IF outcome = "ok"
       THEN /\ cart' = PlatformAdd(cart, GiftItem(procs[i].cur, TRUE), atTop)
            /\ procs' = [procs EXCEPT ![i].pc = "discFetch"]
            /\ UNCHANGED <<isProcessing, milestones, lastPass, quiet>>
       ELSE IF outcome = "rejected"
       THEN /\ atTop
            /\ procs' = [procs EXCEPT ![i] = [Failed(procs[i]) EXCEPT !.pc = "discFetch"]]
            /\ UNCHANGED <<cart, isProcessing, milestones, lastPass, quiet>>
       ELSE /\ atTop
            /\ Resume(i, Failed(procs[i]), milestones, cart)
            /\ UNCHANGED cart
  /\ emitted' = <<>>
  /\ UNCHANGED <<discount, connected, processingTimeout, orphanTimers, loadTimers, qh,
                 uncaught, ext, burst, lastQ>>

\* #addGiftToCart: the response of /cart/add.js
AddResponse(i) ==
  /\ procs[i].pc = "add"
  /\ \E outcome \in {"ok", "throw", "rejected"}, atTop \in BOOLEAN :
       IF outcome = "ok"
       THEN /\ cart' = PlatformAdd(cart, GiftItem(procs[i].cur, TRUE), atTop)
            /\ procs' = [procs EXCEPT ![i].pc = "discFetch"]
            /\ UNCHANGED <<isProcessing, milestones, lastPass, quiet>>
       ELSE /\ atTop
            /\ Resume(i, Failed(procs[i]), milestones, cart)
            /\ UNCHANGED cart
  /\ emitted' = <<>>
  /\ UNCHANGED <<discount, connected, processingTimeout, orphanTimers, loadTimers, qh,
                 uncaught, ext, burst, lastQ>>

\* #addGiftToCart after #applyFreeGiftDiscount has returned: the tagged cart event,
\* then the fetch for the milestones
AfterDiscount(i, p, before) ==
  LET ev == CartAddEvent(AddData(p.cur))
      st == Deliver(ev, TimerState(milestones))
  IN /\ SetTimers(st)
     /\ milestones' = st.milestones
     /\ emitted' = before \o <<ev>>
     /\ procs' = [procs EXCEPT ![i] = [p EXCEPT !.pc = "addRefetch"]]
     /\ UNCHANGED <<isProcessing, lastPass, quiet>>

\* #applyFreeGiftDiscount: its cart fetch
DiscountFetchResponse(i) ==
  /\ procs[i].pc = "discFetch"
  /\ \E outcome \in {"ok", "throw"} :
       IF outcome = "throw"
       THEN AfterDiscount(i, Failed(procs[i]), <<>>)
       ELSE IF ~isGiftInCart(CartJs(cart), procs[i].cur)
            THEN AfterDiscount(i, procs[i], <<>>)
            ELSE IF getDiscountCodeForVariant(procs[i].cur) = "null"
                 THEN AfterDiscount(i, procs[i], <<>>)
                 ELSE /\ procs' = [procs EXCEPT ![i].pc = "discUpdate"]
                      /\ emitted' = <<>>
                      /\ UNCHANGED <<isProcessing, milestones, lastPass, quiet,
                                     processingTimeout, orphanTimers, burst>>
  /\ UNCHANGED <<cart, discount, connected, loadTimers, qh, uncaught, ext, lastQ>>

\* POST /cart/update.js with one discount code: the codes of the cart become that code
PlatformDiscount(codes, code) == {code}

\* #applyFreeGiftDiscount: the response of /cart/update.js
DiscountUpdateResponse(i) ==
  /\ procs[i].pc = "discUpdate"
  /\ \E outcome \in {"ok", "throw", "rejected"} :
       IF outcome = "ok"
       THEN /\ discount' = PlatformDiscount(discount, getDiscountCodeForVariant(procs[i].cur))
            /\ AfterDiscount(i, procs[i], <<DiscountUpdateEvent(Null)>>)
       ELSE /\ UNCHANGED discount
            /\ AfterDiscount(i, Failed(procs[i]), <<>>)
  /\ UNCHANGED <<cart, connected, loadTimers, qh, uncaught, ext, lastQ>>

\* the fetch for the milestones that ends #addGiftToCart
AddRefetchResponse(i) ==
  /\ procs[i].pc = "addRefetch"
  /\ \E outcome \in {"ok", "throw"} :
       IF outcome = "ok"
       THEN Resume(i, procs[i],
                   updateMilestones(calculateCartTotalExcludingFreeGifts(CartJs(cart))), cart)
       ELSE Resume(i, Failed(procs[i]), milestones, cart)
  /\ emitted' = <<>>
  /\ UNCHANGED <<cart, discount, connected, processingTimeout, orphanTimers, loadTimers, qh,
                 uncaught, ext, burst, lastQ>>

\* #removeGiftFromCart: the response of /cart/change.js for the line of the snapshot
ChangeResponse(i) ==
  /\ procs[i].pc = "change"
  /\ \E outcome \in {"ok", "throw", "rejected"} :
       IF outcome = "ok" /\ ~ChangeAccepted(cart, procs[i].line)
       THEN \* the cart has no such line: the response carries errors
            /\ AfterRemove(i, [procs[i] EXCEPT !.allOk = FALSE], milestones, cart)
            /\ emitted' = <<>>
            /\ UNCHANGED <<cart, processingTimeout, orphanTimers, burst>>
       ELSE IF outcome = "ok"
       THEN /\ cart' = PlatformChange(cart, procs[i].line, 0)
            /\ LET ev == CartUpdateEvent(CartJs(cart'))
                   st == Deliver(ev, TimerState(milestones))
               IN /\ SetTimers(st)
                  /\ milestones' = st.milestones
                  /\ emitted' = <<ev>>
            /\ procs' = [procs EXCEPT ![i].pc = "rmRefetch"]
            /\ UNCHANGED <<isProcessing, lastPass, quiet>>
       ELSE /\ AfterRemove(i, Failed(procs[i]), milestones, cart)
            /\ emitted' = <<>>
            /\ UNCHANGED <<cart, processingTimeout, orphanTimers, burst>>
  /\ UNCHANGED <<discount, connected, loadTimers, qh, uncaught, ext, lastQ>>

\* the fetch for the milestones that ends #removeGiftFromCart
RemoveRefetchResponse(i) ==
  /\ procs[i].pc = "rmRefetch"
  /\ \E outcome \in {"ok", "throw"} :
       IF outcome = "ok"
       THEN AfterRemove(i, procs[i],
                        updateMilestones(calculateCartTotalExcludingFreeGifts(CartJs(cart))),
                        cart)
       ELSE AfterRemove(i, Failed(procs[i]), milestones, cart)
  /\ emitted' = <<>>
  /\ UNCHANGED <<cart, discount, connected, processingTimeout, orphanTimers, loadTimers, qh,
                 uncaught, ext, burst, lastQ>>

\* #removeAllFreeGifts: the 100 ms wait after each removal is over
SleepDone(i) ==
  /\ procs[i].pc = "sleep"
  /\ Resume(i, procs[i], milestones, cart)
  /\ emitted' = <<>>
  /\ UNCHANGED <<cart, discount, connected, processingTimeout, orphanTimers, loadTimers, qh,
                 uncaught, ext, burst, lastQ>>

\* the debounce callback's own fetch and #updateMilestones
TailFetchResponse(i) ==
  /\ procs[i].pc = "tail"
  /\ \E outcome \in {"ok", "throw"} :
       IF outcome = "ok"
       THEN \E c \in {CartJs(cart)} :
              \E cartTotal \in {calculateCartTotalExcludingFreeGifts(c)} :
                milestones' = updateMilestones(cartTotal)
       ELSE UNCHANGED milestones
  /\ procs' = [procs EXCEPT ![i] = Idle]
  /\ emitted' = <<>>
  /\ UNCHANGED <<cart, discount, connected, isProcessing, processingTimeout, orphanTimers,
                 loadTimers, qh, uncaught, lastPass, quiet, ext, burst, lastQ>>

(***************************************************************************)
(* The quantity-lock guard, #handleQuantityUpdate.                         *)
(***************************************************************************)
\* a quantity-selector-update event for a line and a requested quantity; line 0
\* stands for an event without detail.  The handler awaits its fetch at once, so
\* the dispatch returns before anything else of it runs; atReturn is
\* event.defaultPrevented as the code that dispatched the event finds it.
QuantityEvent(line, quantity) ==
  /\ connected
  /\ qh.pc = "idle"
  /\ LET atAwait == [pc |-> "fetch", line |-> line, quantity |-> quantity,
                     prevented |-> FALSE,
                     onGift |-> line \in 1..Len(cart) /\ isFreeGiftItem(cart[line]),
                     clean |-> TRUE, atReturn |-> FALSE]
     IN qh' = [atAwait EXCEPT !.atReturn = atAwait.prevented]
  /\ lastQ' = NoQ
  /\ emitted' = <<>>
  /\ UNCHANGED <<cart, discount, connected, isProcessing, processingTimeout, orphanTimers,
                 loadTimers, procs, milestones, uncaught, lastPass, quiet, ext, burst>>

\* the record of a call that ended with the platform cart c
QDone(q, sent, c) ==
  [done |-> TRUE, line |-> q.line, quantity |-> q.quantity, onGift |-> q.onGift,
   sent |-> sent, prevented |-> q.prevented, clean |-> q.clean, atReturn |-> q.atReturn,
   endQuantity |-> IF q.line \in 1..Len(c) THEN c[q.line].quantity ELSE 0]

\* the tests without the one on the quantity: a gift line is always reset
vetoesAnyQuantity(c, line, quantity) ==
  /\ line # 0 /\ quantity # 0
  /\ line \in 1..Len(c.items)
  /\ isFreeGiftItem(c.items[line])

\* the tests of #handleQuantityUpdate on the fetched cart c: TRUE when it goes on
\* to veto the event and to send the change request
vetoes(c, line, quantity) ==
  /\ line # 0 /\ quantity # 0
  /\ line \in 1..Len(c.items)
  /\ isFreeGiftItem(c.items[line])
  /\ quantity # 1

\* const cart = await this.#fetchCart() of #handleQuantityUpdate
QuantityFetchResponse ==
  /\ qh.pc = "fetch"
  /\ \E outcome \in {"ok", "throw"} :
       IF outcome = "ok" /\ vetoes(CartJs(cart), qh.line, qh.quantity)
       THEN /\ qh' = [qh EXCEPT !.pc = "change", !.prevented = TRUE]
            /\ UNCHANGED lastQ
       ELSE /\ qh' = QIdle
            /\ lastQ' = QDone(IF outcome = "ok" THEN qh ELSE [qh EXCEPT !.clean = FALSE],
                              FALSE, cart)
  /\ emitted' = <<>>
  /\ UNCHANGED <<cart, discount, connected, isProcessing, processingTimeout, orphanTimers,
                 loadTimers, procs, milestones, uncaught, lastPass, quiet, ext, burst>>

\* every pass in flight has seen the cart change under it
Disturbed ==
  [i \in Procs |-> IF InPass(i) THEN [procs[i] EXCEPT !.clean = FALSE, !.allOk = FALSE]
                             ELSE procs[i]]

\* await fetch(Theme.routes.cart_change_url, ...) of #handleQuantityUpdate: the
\* response is not read, and a network error is not caught
QuantityChangeResponse ==
  /\ qh.pc = "change"
  /\ \E outcome \in {"ok", "throw"} :
       IF outcome = "ok"
       THEN /\ cart' = PlatformChange(cart, qh.line, 1)
            /\ lastQ' = QDone(qh, TRUE, cart')
            /\ UNCHANGED uncaught
       ELSE /\ UNCHANGED cart
            /\ lastQ' = QDone([qh EXCEPT !.clean = FALSE], TRUE, cart)
            /\ uncaught' = uncaught \cup {"handleQuantityUpdate"}
  /\ qh' = QIdle
  /\ procs' = Disturbed
  /\ quiet' = IF quiet = "none" THEN "none" ELSE "touched"
  /\ lastPass' = NoPass
  /\ emitted' = <<>>
  /\ UNCHANGED <<discount, connected, isProcessing, processingTimeout, orphanTimers,
                 loadTimers, milestones, ext, burst>>

(***************************************************************************)
(* The customer and the other components of the page change the cart.      *)
(***************************************************************************)
ExternalChange(c) ==
  /\ ext > 0
  /\ ext' = ext - 1
  /\ cart' = c
  /\ procs' = Disturbed
  /\ qh' = [qh EXCEPT !.clean = FALSE]
  /\ quiet' = IF quiet = "none" THEN "none" ELSE "touched"
  /\ lastPass' = NoPass
  /\ lastQ' = NoQ
  /\ emitted' = <<>>
  /\ UNCHANGED <<discount, connected, isProcessing, processingTimeout, orphanTimers,
                 loadTimers, milestones, uncaught, burst>>

\* a product is added: a paid one, or a gift variant bought as a product
ExternalAdd(item) ==
  /\ \/ Len(cart) < MaxLines /\ \A j \in 1..Len(cart) : LineKey(cart[j]) # LineKey(item)
     \/ \E j \in 1..Len(cart) : LineKey(cart[j]) = LineKey(item) /\ cart[j].quantity < MaxQty
  /\ \E atTop \in BOOLEAN : ExternalChange(PlatformAdd(cart, item, atTop))

\* the quantity of a line is set, 0 removing the line
ExternalSetQuantity(line, quantity) ==
  /\ line \in 1..Len(cart)
  /\ cart[line].quantity # quantity
  /\ ExternalChange(PlatformChange(cart, line, quantity))

(***************************************************************************)
(* The specification.                                                      *)
(***************************************************************************)
ExternalItems == PaidKinds \cup { GiftItem(FREE_GIFT_CONFIG[k].variantId, FALSE) : k \in GiftKeys }

\* the reconciler under every interleaving of its lifecycle, its timers, the cart
\* events of other components and the outcomes of its requests
Next ==
  \/ connectedCallback /\ OthersIdle
  \/ disconnectedCallback /\ OthersIdle
  \/ \E ev \in ExternalEvents(cart) : CartEvent(ev) /\ OthersIdle
  \/ LoadTimerFires /\ OthersIdle
  \/ DebounceTimerFires /\ OthersIdle
  \/ \E i \in Procs : FetchCartResponse(i) /\ OthersIdle
  \/ \E i \in Procs : AddResponse(i) /\ OthersIdle
  \/ \E i \in Procs : DiscountFetchResponse(i) /\ OthersIdle
  \/ \E i \in Procs : DiscountUpdateResponse(i) /\ OthersIdle
  \/ \E i \in Procs : AddRefetchResponse(i) /\ OthersIdle
  \/ \E i \in Procs : ChangeResponse(i) /\ OthersIdle
  \/ \E i \in Procs : RemoveRefetchResponse(i) /\ OthersIdle
  \/ \E i \in Procs : SleepDone(i) /\ OthersIdle
  \/ \E i \in Procs : TailFetchResponse(i) /\ OthersIdle

Spec == Init /\ [][Next]_vars

\* the quantity-lock guard from every cart, with cart changes by others
NextGuard ==
  \/ connectedCallback /\ OthersIdle
  \/ disconnectedCallback /\ OthersIdle
  \/ \E line \in 0..(Len(cart) + 1), quantity \in 0..MaxQty : QuantityEvent(line, quantity) /\ OthersIdle
  \/ QuantityFetchResponse /\ OthersIdle
  \/ QuantityChangeResponse /\ OthersIdle
  \/ \E item \in ExternalItems : ExternalAdd(item) /\ OthersIdle
  \/ \E line \in 1..Len(cart), quantity \in 0..MaxQty : ExternalSetQuantity(line, quantity) /\ OthersIdle

SpecGuard == InitPass /\ [][NextGuard]_vars

\* no timer callback of the component is in flight
Quiescent == \A i \in Procs : procs[i].pc = "idle"

\* passes one after the other, from every cart: the element is connected, its timers
\* fire, other components announce cart changes while no callback is in flight, and
\* every request of a pass succeeds or fails
NextPass ==
  \/ connectedCallback /\ OthersIdle
  \/ Quiescent /\ \E ev \in ExternalEvents(cart) : CartEvent(ev) /\ OthersIdle
  \/ LoadTimerFires /\ OthersIdle
  \/ DebounceTimerFires /\ OthersIdle
  \/ \E i \in Procs : FetchCartResponse(i) /\ OthersIdle
  \/ \E i \in Procs : AddResponse(i) /\ OthersIdle
  \/ \E i \in Procs : DiscountFetchResponse(i) /\ OthersIdle
  \/ \E i \in Procs : DiscountUpdateResponse(i) /\ OthersIdle
  \/ \E i \in Procs : AddRefetchResponse(i) /\ OthersIdle
  \/ \E i \in Procs : ChangeResponse(i) /\ OthersIdle
  \/ \E i \in Procs : RemoveRefetchResponse(i) /\ OthersIdle
  \/ \E i \in Procs : SleepDone(i) /\ OthersIdle
  \/ \E i \in Procs : TailFetchResponse(i) /\ OthersIdle

SpecPass == InitPass /\ [][NextPass]_vars

(***************************************************************************)
(* Vocabulary of the properties.                                           *)
(***************************************************************************)
\* the qualifying subtotal of a /cart.js cart: its total less its gift lines
QualifyingSubtotal(c) ==
  LET giftPrice(item) == IF isFreeGiftItem(item) THEN item.final_line_price ELSE 0
  IN c.total_price - SumOver(c.items, giftPrice)

\* the lines of a platform cart that hold the variant of gift k
GiftLines(c, k) == { j \in 1..Len(c) : c[j].variant_id = FREE_GIFT_CONFIG[k].variantId }

\* the same for the items of a /cart.js cart
GiftItems(c, k) == { j \in 1..Len(c.items) : c.items[j].variant_id = FREE_GIFT_CONFIG[k].variantId }

PresentOnce(c, k) == \E j \in GiftLines(c, k) : GiftLines(c, k) = {j} /\ c[j].quantity = 1

Qualifies(c, k) == QualifyingSubtotal(c) >= FREE_GIFT_CONFIG[k].threshold

\* a pass has run to completion, every request of it succeeded and nobody else
\* changed the cart meanwhile
PassSucceeded == lastPass.done /\ lastPass.clean /\ lastPass.allOk

\* the same, except that the platform may have answered a request of the pass with
\* an error payload because of what the request asked for
PassUndisturbed == lastPass.done /\ lastPass.clean

(***************************************************************************)
(* C1.  A gift whose threshold is above the qualifying subtotal of the     *)
(* cart is absent from the cart after one pass that ran to completion with *)
(* every request succeeding and no cart change by others.                  *)
(***************************************************************************)
C1_BelowThresholdAbsent ==
  PassSucceeded =>
    \A k \in GiftKeys : ~Qualifies(lastPass.snap, k) => GiftLines(lastPass.endCart, k) = {}

(***************************************************************************)
(* C2.  A gift whose threshold is reached by the qualifying subtotal is in *)
(* the cart as exactly one line of quantity 1 after one such pass, whether *)
(* it was absent or present before.                                        *)
(***************************************************************************)
C2_AtThresholdPresentOnce ==
  PassSucceeded =>
    \A k \in GiftKeys : Qualifies(lastPass.snap, k) => PresentOnce(lastPass.endCart, k)

\* gift k is absent from the /cart.js cart, or is one line of quantity 1 in it
AbsentOrOnce(c, k) ==
  \/ GiftItems(c, k) = {}
  \/ \E j \in GiftItems(c, k) : GiftItems(c, k) = {j} /\ c.items[j].quantity = 1

\* C2 as amended: the same for a gift that was absent, or one line of quantity 1,
\* when the pass fetched the cart
C2_AtThresholdPresentOnceAmended ==
  PassSucceeded =>
    \A k \in GiftKeys :
      Qualifies(lastPass.snap, k) /\ AbsentOrOnce(lastPass.snap, k)
        => PresentOnce(lastPass.endCart, k)

\* a pass added gift8000 to a cart that held gift5000 already and qualifies for both
C2_Witness ==
  /\ PassSucceeded
  /\ Qualifies(lastPass.snap, "gift8000")
  /\ GiftItems(lastPass.snap, "gift8000") = {}
  /\ GiftItems(lastPass.snap, "gift5000") # {}
  /\ AbsentOrOnce(lastPass.snap, "gift5000")
  /\ lastPass.reqs = 1
  /\ PresentOnce(lastPass.endCart, "gift8000")

(***************************************************************************)
(* C3.  A cart of gift lines alone holds no gift line after one pass that  *)
(* ran to completion without a network failure and without a cart change   *)
(* by others, whatever the arrangement of its lines.                       *)
(***************************************************************************)
C3_NoPaidLineNoGift ==
  PassUndisturbed /\ Len(lastPass.snap.items) > 0 /\ ~hasPaidItems(lastPass.snap)
    => \A k \in GiftKeys : GiftLines(lastPass.endCart, k) = {}

(***************************************************************************)
(* C5.  One undisturbed pass brings the gift lines to the desired state    *)
(* (each gift in the cart exactly when the subtotal reaches its            *)
(* threshold), and the pass that follows it, the cart untouched in         *)
(* between, sends no add request and no change request.                    *)
(***************************************************************************)
C5_SinglePassConverges ==
  PassSucceeded =>
    /\ \A k \in GiftKeys :
         Qualifies(lastPass.snap, k) <=> GiftLines(lastPass.endCart, k) # {}
    /\ lastPass.prev = "ok" => lastPass.reqs = 0

(***************************************************************************)
(* C4.  A quantity-selector-update notification for a line that holds a    *)
(* gift variant and for any quantity other than 1 makes                    *)
(* #handleQuantityUpdate send the change request that sets the line to     *)
(* quantity 1, so that the line has quantity 1 when the handler has ended  *)
(* (its requests succeeding, the cart not changed by others meanwhile).    *)
(***************************************************************************)
C4_GiftQuantityForcedToOne ==
  lastQ.done /\ lastQ.clean /\ lastQ.onGift /\ lastQ.quantity # 1
    => lastQ.sent /\ lastQ.endQuantity = 1

(***************************************************************************)
(* Vocabulary of the concurrency properties.                               *)
(***************************************************************************)
PassSet == { i \in Procs : InPass(i) }

\* a pass starts in this step: a callback comes to await the first fetch of a pass
PassStarts == \E i \in Procs : procs'[i].pc = "fetch" /\ procs[i].pc # "fetch"

Tagged(ev) == ev.sourceId = SOURCE_TAG \/ ev.source = SOURCE_TAG

(***************************************************************************)
(* C6.  At most one reconciliation pass is in flight at any time, and a    *)
(* call of #checkAndUpdateGifts made by a timer callback while             *)
(* #isProcessing is true starts no pass and leaves the cart alone.         *)
(***************************************************************************)
C6_SinglePassInFlight ==
  /\ [](Cardinality(PassSet) <= 1)
  /\ [][isProcessing /\ (LoadTimerFires \/ DebounceTimerFires)
          => ~PassStarts /\ PassSet' = PassSet /\ UNCHANGED <<cart, discount>>]_vars

\* a debounce callback was turned away at the guard while a pass is in flight
C6_Witness ==
  \E i, j \in Procs :
    InPass(i) /\ procs[i].dropped /\ procs[j].pc = "tail" /\ procs[j].kind = "dropped"

(***************************************************************************)
(* C7.  At most one debounce timer is pending at any time, and a burst of  *)
(* notifications, each arriving while the timer of the one before is       *)
(* pending, causes exactly one call of #checkAndUpdateGifts, made once the *)
(* timer of the last one has fired.                                        *)
(***************************************************************************)
C7_Debounce ==
  /\ pendingDebounce <= 1
  /\ burst.calls <= 1
  /\ burst.active => (burst.calls = 1 <=> pendingDebounce = 0)

\* a burst of two notifications or more has caused its one call
C7_Witness == burst.active /\ burst.n = 2 /\ burst.calls = 1 /\ pendingDebounce = 0

(***************************************************************************)
(* C8.  Every cart event the component dispatches carries its tag as       *)
(* sourceId and as data.source, and a cart event that carries the tag in   *)
(* either place starts no pass, arms and cancels no timer and changes      *)
(* nothing on the platform.                                                *)
(***************************************************************************)
C8_SourceTagBreaksCycle ==
  /\ [](\A n \in 1..Len(emitted) :
          emitted[n].type = "cart:update"
            => emitted[n].sourceId = SOURCE_TAG /\ emitted[n].source = SOURCE_TAG)
  /\ [][/\ \A ev \in ExternalEvents(cart) :
             Tagged(ev) /\ CartEvent(ev)
               => UNCHANGED <<processingTimeout, orphanTimers, loadTimers, isProcessing,
                              procs, cart, discount>>
        /\ emitted' # <<>>
             => ~PassStarts /\ UNCHANGED <<processingTimeout, orphanTimers, loadTimers>>]_vars

\* the component, in the document, has just dispatched its cart event
C8_Witness ==
  /\ connected
  /\ \E n \in 1..Len(emitted) : emitted[n].type = "cart:update"

(***************************************************************************)
(* C9.  A debounce timer that fires while a pass is in flight starts no    *)
(* pass and leaves nothing scheduled; the end of a pass starts no pass and *)
(* arms no timer; a pass starts only when a timer fires, and a timer is    *)
(* armed only by an untagged cart event or by connectedCallback.           *)
(***************************************************************************)
C9_TriggersDroppedNotQueued ==
  [][/\ isProcessing /\ DebounceTimerFires
          => /\ ~PassStarts /\ PassSet' = PassSet /\ isProcessing'
             /\ pendingDebounce' = pendingDebounce - 1
             /\ loadTimers' = loadTimers
     /\ isProcessing /\ ~isProcessing'
          => PassSet' = {} /\ pendingDebounce' = pendingDebounce /\ loadTimers' = loadTimers
     /\ PassStarts => ~isProcessing /\ (LoadTimerFires \/ DebounceTimerFires)
     /\ pendingDebounce' > pendingDebounce
          => \E ev \in ExternalEvents(cart) : ~Tagged(ev) /\ CartEvent(ev)
     /\ loadTimers' > loadTimers => connectedCallback]_vars

\* a pass during which a trigger was dropped has ended, and nothing is scheduled
C9_Witness ==
  /\ lastPass.done /\ lastPass.dropped
  /\ ~isProcessing /\ PassSet = {}
  /\ pendingDebounce = 0 /\ loadTimers = 0

(***************************************************************************)
(* C10.  No exception escapes the handlers of the reconciler, the flag     *)
(* #isProcessing is false whenever no pass is in flight (so also after a   *)
(* pass in which a request failed), an untagged cart event arms the        *)
(* debounce timer, and that timer firing with no pass in flight starts a   *)
(* pass.                                                                   *)
(***************************************************************************)
C10_FailureIsNoOpAndRetried ==
  /\ [](uncaught \subseteq {"handleQuantityUpdate"})
  /\ [](PassSet = {} => ~isProcessing)
  /\ [][/\ \A ev \in ExternalEvents(cart) :
             ~Tagged(ev) /\ CartEvent(ev) => processingTimeout' = "live"
        /\ DebounceTimerFires /\ PassSet = {} => PassStarts]_vars

\* the pass started by a debounce timer after a pass in which a request failed
C10_Witness ==
  \E i \in Procs : InPass(i) /\ procs[i].kind = "debounce" /\ procs[i].prev = "failed"

(***************************************************************************)
(* C11.  No exception escapes #handleQuantityUpdate: whether its cart      *)
(* fetch or its change request fails, the handler ends without an uncaught *)
(* error.                                                                  *)
(***************************************************************************)
C11_GuardFailuresCaught == "handleQuantityUpdate" \notin uncaught

(***************************************************************************)
(* The pure functions of the component on their own:                       *)
(* #calculateCartTotalExcludingFreeGifts on the carts /cart.js can return, *)
(* lines with a discount included, and #updateMilestones on two subtotals  *)
(* one after the other, as the tagged branch of #handleCartUpdate and the  *)
(* debounce callback call them.                                            *)
(***************************************************************************)
SubtotalStep == 50000
MaxSubtotal == 900000

\* the subtotals tried: a grid, and the neighbours of the two milestones
Subtotals ==
  { k * SubtotalStep : k \in 0..(MaxSubtotal \div SubtotalStep) } \cup
  { 1, milestone5000 - 1, milestone5000 + 1, milestone8000 - 1, milestone8000 + 1 }

\* paid lines a discount code has reduced: to nothing, and by a part
DiscountedKinds ==
  { [variant_id |-> "1004", quantity |-> 1, price |-> 300000, final_price |-> 0, auto |-> FALSE],
    [variant_id |-> "1005", quantity |-> 1, price |-> 500000, final_price |-> 400000, auto |-> FALSE] }

FnCarts ==
  { c \in SeqsUpTo(PaidKinds \cup GiftKinds \cup DiscountedKinds, MaxLines) : DistinctKeys(c) }

InitFn ==
  /\ sp = NoSp /\ pm = NoPm
  /\ \/ /\ InitWith(<<>>)
        /\ \E s1, s2 \in Subtotals : fn = [NoFn EXCEPT !.kind = "subtotals", !.s1 = s1, !.s2 = s2]
     \/ /\ \E c \in FnCarts : InitWith(c)
        /\ fn = [NoFn EXCEPT !.kind = "cart"]

\* this.#updateMilestones(cartTotal), for s1 and then for s2
UpdateMilestonesCall ==
  /\ fn.kind = "subtotals"
  /\ fn.n < 2
  /\ milestones' = updateMilestones(IF fn.n = 0 THEN fn.s1 ELSE fn.s2)
  /\ fn' = [fn EXCEPT !.n = @ + 1, !.first = IF fn.n = 0 THEN milestones' ELSE @]
  /\ UNCHANGED <<cart, discount, connected, isProcessing, processingTimeout, orphanTimers,
                 loadTimers, procs, qh, emitted, uncaught, lastPass, quiet, ext, burst,
                 lastQ, sp, pm>>

\* const cartTotal = this.#calculateCartTotalExcludingFreeGifts(cart), and the
\* #updateMilestones(cartTotal) that follows it
CalculateCall ==
  /\ fn.kind = "cart"
  /\ fn.n = 0
  /\ fn' = [fn EXCEPT !.n = 1, !.total = calculateCartTotalExcludingFreeGifts(CartJs(cart))]
  /\ milestones' = updateMilestones(fn'.total)
  /\ UNCHANGED <<cart, discount, connected, isProcessing, processingTimeout, orphanTimers,
                 loadTimers, procs, qh, emitted, uncaught, lastPass, quiet, ext, burst,
                 lastQ, sp, pm>>

NextFn ==
  \/ UpdateMilestonesCall
  \/ CalculateCall

SpecFn == InitFn /\ [][NextFn]_vars

(***************************************************************************)
(* The two definitions of the component in cart-free-gifts.js, the first   *)
(* (lines 48-298) and the final one (lines 340-823), on the same cart: the *)
(* add and change requests each sends in one pass, every decision taken on *)
(* the cart fetched at the start of the pass.  A request is [op,           *)
(* variantId, line].                                                       *)
(***************************************************************************)
\* the carts of FnCarts with every gift line at price 0
ZeroGiftPrice(c) ==
  [i \in 1..Len(c) |-> IF isFreeGiftItem(c[i])
                        THEN [c[i] EXCEPT !.price = 0, !.final_price = 0]
                        ELSE c[i]]

\* #handleGift of the first definition
firstHandleGift(c, giftConfig, cartTotal) ==
  LET inCart == isGiftInCart(c, giftConfig.variantId)
      shouldHaveGift == cartTotal >= giftConfig.threshold
  IN IF shouldHaveGift /\ ~inCart THEN "add"
     ELSE IF ~shouldHaveGift /\ inCart THEN "remove"
     ELSE "none"

\* #checkAndUpdateGifts of the first definition after its fetch: cart.total_price
\* is compared to the threshold of gift8000 and then of gift5000
firstCheckAndUpdateGifts(c) ==
  LET cartTotal == Or0(c.total_price, 0)
      request(k) ==
        LET what == firstHandleGift(c, FREE_GIFT_CONFIG[k], cartTotal)
            variantId == FREE_GIFT_CONFIG[k].variantId
        IN IF what = "add" THEN {[op |-> "add", variantId |-> variantId, line |-> 0]}
           ELSE IF what = "remove"
           THEN {[op |-> "change", variantId |-> variantId, line |-> lineNumber(c, variantId)]}
           ELSE {}
  IN request("gift8000") \cup request("gift5000")

\* the requests of a pass of the final definition from a point of its plan on
RECURSIVE PassRequests(_, _, _, _)
PassRequests(c, mode, todo, cartTotal) ==
  LET n == NextOp(c, mode, todo, cartTotal)
  IN IF n.pc = "end" THEN {}
     ELSE {[op |-> n.pc, variantId |-> n.cur, line |-> n.line]}
            \cup PassRequests(c, mode, n.todo, cartTotal)

\* #checkAndUpdateGifts of the final definition after its fetch
finalCheckAndUpdateGifts(c) ==
  LET plan == planPass(c)
  IN PassRequests(c, plan.mode, plan.todo, plan.total)

InitVersions ==
  /\ sp = NoSp /\ pm = NoPm
  /\ \E c \in FnCarts : InitWith(ZeroGiftPrice(c))
  /\ fn = [kind |-> "versions", n |-> 0, firstRequests |-> {}, finalRequests |-> {}]

\* both definitions decide on the cart /cart.js returns
VersionsCall ==
  /\ fn.kind = "versions"
  /\ fn.n = 0
  /\ fn' = [fn EXCEPT !.n = 1,
                      !.firstRequests = firstCheckAndUpdateGifts(CartJs(cart)),
                      !.finalRequests = finalCheckAndUpdateGifts(CartJs(cart))]
  /\ UNCHANGED <<cart, discount, connected, isProcessing, processingTimeout, orphanTimers,
                 loadTimers, procs, qh, milestones, emitted, uncaught, lastPass, quiet, ext,
                 burst, lastQ, sp, pm>>

NextVersions == VersionsCall

SpecVersions == InitVersions /\ [][NextVersions]_vars

(***************************************************************************)
(* C30.  On every cart whose gift lines have price 0 the first definition  *)
(* of the component and the final one send the same set of add and change  *)
(* requests in a pass.                                                     *)
(***************************************************************************)
C30_VersionsAgree ==
  fn.kind = "versions" /\ fn.n = 1 => fn.firstRequests = fn.finalRequests

(***************************************************************************)
(* C12.  The qualifying subtotal #calculateCartTotalExcludingFreeGifts     *)
(* computes is the cart total less the gift lines, that is the sum of the  *)
(* final line prices of the lines that hold no gift variant: a gift line   *)
(* counts 0, and so does a paid line whose final line price is 0.          *)
(***************************************************************************)
C12_QualifyingSubtotal ==
  fn.kind = "cart" /\ fn.n = 1 => fn.total = QualifyingSubtotal(CartJs(cart))

(***************************************************************************)
(* C15.  The progress #updateMilestones computes is non-decreasing in the  *)
(* subtotal and lies between 0 and 100 percent.                            *)
(***************************************************************************)
C15_ProgressMonotoneAndClamped ==
  fn.kind = "subtotals" /\ fn.n = 2 =>
    /\ fn.first.progress >= 0 /\ fn.first.progress <= 100 * ProgressUnit
    /\ milestones.progress >= 0 /\ milestones.progress <= 100 * ProgressUnit
    /\ fn.s1 <= fn.s2 => fn.first.progress <= milestones.progress
    /\ fn.s2 <= fn.s1 => milestones.progress <= fn.first.progress

\* two subtotals on either side of the first milestone, with rising progress
C15_Witness ==
  /\ fn.kind = "subtotals" /\ fn.n = 2
  /\ fn.s1 < milestone5000 /\ milestone5000 <= fn.s2 /\ fn.s2 < milestone8000
  /\ 0 < fn.first.progress /\ fn.first.progress < milestones.progress

(***************************************************************************)
(* C16.  Each band is half of the bar: progress is 0 at subtotal 0, 50 at  *)
(* 500000, 100 from 800000 on, and linear inside each band; the first      *)
(* marker is set exactly when the subtotal is at least 500000, the second  *)
(* exactly when it is at least 800000, whatever was painted before.        *)
(***************************************************************************)
\* the band a subtotal lies in, with its width and the progress at its start
Band(s) ==
  IF s >= milestone8000 THEN [lo |-> milestone8000, width |-> 0, base |-> 100]
  ELSE IF s >= milestone5000
  THEN [lo |-> milestone5000, width |-> milestone8000 - milestone5000, base |-> 50]
  ELSE [lo |-> 0, width |-> milestone5000, base |-> 0]

\* progress p is what the band of s gives: base + 50 * (s - lo) / width percent,
\* both sides of the equation divided by milestone5000 / 5 to stay in 32 bits
OnTheLine(s, p) ==
  LET b == Band(s)
      k == milestone5000 \div 5
  IN IF b.width = 0 THEN p = 100 * ProgressUnit
     ELSE (p - b.base * ProgressUnit) * (b.width \div k) = (s - b.lo) * ((50 * ProgressUnit) \div k)

C16_MilestoneBands ==
  fn.kind = "subtotals" /\ fn.n = 2 =>
    /\ OnTheLine(fn.s1, fn.first.progress)
    /\ OnTheLine(fn.s2, milestones.progress)
    /\ fn.first.reached5000 <=> fn.s1 >= milestone5000
    /\ fn.first.reached8000 <=> fn.s1 >= milestone8000
    /\ milestones.reached5000 <=> fn.s2 >= milestone5000
    /\ milestones.reached8000 <=> fn.s2 >= milestone8000

\* the bar was painted at the first milestone exactly, then below it: the marker
\* is set and then removed
C16_Witness ==
  /\ fn.kind = "subtotals" /\ fn.n = 2
  /\ fn.s1 = milestone5000 /\ fn.first.progress = 50 * ProgressUnit /\ fn.first.reached5000
  /\ fn.s2 < milestone5000 /\ ~milestones.reached5000

(***************************************************************************)
(* C13.  In a pass over a cart with a paid line and a positive subtotal,   *)
(* for each gift judged on the cart fetched at the start: an add request   *)
(* for its variant is sent exactly when the subtotal reaches the threshold *)
(* and the gift is absent, a change request for its line exactly when the  *)
(* subtotal is below the threshold and the gift is present, and no request *)
(* about it otherwise.                                                     *)
(***************************************************************************)
\* the requests of the pass that ended last which have op and concern gift k
Requests(op, k) ==
  { n \in 1..Len(lastPass.log) :
      lastPass.log[n].op = op /\ lastPass.log[n].variantId = FREE_GIFT_CONFIG[k].variantId }

GiftsJudged ==
  /\ lastPass.done
  /\ "items" \in DOMAIN lastPass.snap
  /\ hasPaidItems(lastPass.snap)
  /\ QualifyingSubtotal(lastPass.snap) > 0

C18_VetoBeforeDispatchReturns ==
  lastQ.done /\ lastQ.onGift /\ lastQ.quantity # 1 /\ lastQ.prevented => lastQ.atReturn

(***************************************************************************)
(* The cart-suggested-products component (cart-suggested-products.js).     *)
(* sp = [on, isProcessing, disabled, hs, codeKind, adds, sent, lastReq,    *)
(* turnedAway, updates, timerBy, passBy, inCartItems, adding, ended,       *)
(* endedButton]: #isProcessing, the add buttons that are disabled, the     *)
(* #handleAddToCart calls in flight, how the shop has set up the code      *)
(* SUGGESTED5 (on the order, on the lines, or not at all), a record of the *)
(* requests made, the #handleCartUpdate calls that await renderSection,    *)
(* whether this.closest('cart-items-component') finds an element with a    *)
(* section id, the buttons labelled 'Adding...', and how the handler that  *)
(* ended last ended, for which button.  The page has a                     *)
(* cart-items-component, so sectionsToUpdate is never empty.               *)
(***************************************************************************)
MaxButtons == 2
MaxHandlers == 2
\* the products added in one behaviour
MaxAdds == 2

Buttons == 1..MaxButtons
Handlers == 1..MaxHandlers

SUGGESTED_CODE == "SUGGESTED5"
SUGGESTED_TAG == "cart-suggested-products"

\* a code the customer has entered, which discounts the order
OtherCodes == {"WELCOME"}

\* the line POST /cart/add.js makes for a suggested product
SuggestedItem ==
  [variant_id |-> "2001", quantity |-> 1, price |-> 200000, final_price |-> 200000,
   auto |-> FALSE]

HIdle == [pc |-> "idle", button |-> 0, existing |-> <<>>]

\* the codes of a set, in the order the platform lists them
CodeSeq(codes) ==
  LET applied(code) == code \in codes
  IN SelectSeq(<<"WELCOME", "FREEGIFT5000", "FREEGIFT8000", SUGGESTED_CODE>>, applied)

\* how a code shows in /cart.js: on the order (cart_level_discount_applications)
\* or on the lines (line_level_discount_allocations of every line)
OnLines(code) ==
  \/ code \in {"FREEGIFT5000", "FREEGIFT8000"}
  \/ code = SUGGESTED_CODE /\ sp.codeKind = "line"

DiscountApplication(code) == [type |-> "discount_code", title |-> code]

\* GET /cart.js with its discount applications; the shop's automatic discount is
\* listed as well, with another type
CartJsWithDiscounts(c, codes) ==
  LET onOrder(code) == ~OnLines(code)
      all == CodeSeq(codes)
      orderCodes == SelectSeq(all, onOrder)
      lineCodes == SelectSeq(all, OnLines)
  IN [items |-> [i \in 1..Len(c) |->
                   [variant_id |-> c[i].variant_id, quantity |-> c[i].quantity,
                    line_level_discount_allocations |->
                      [j \in 1..Len(lineCodes) |->
                         [discount_application |-> DiscountApplication(lineCodes[j])]]]],
      cart_level_discount_applications |->
        <<[type |-> "automatic", title |-> "AUTO"]>> \o
        [j \in 1..Len(orderCodes) |-> DiscountApplication(orderCodes[j])]]

RECURSIVE Flatten(_)
Flatten(ss) == IF ss = <<>> THEN <<>> ELSE Head(ss) \o Flatten(Tail(ss))

\* [...new Set(discounts)]: the first occurrence of each element, in order
RECURSIVE Dedupe(_)
Dedupe(q) ==
  IF q = <<>> THEN <<>>
  ELSE LET front == Dedupe(SubSeq(q, 1, Len(q) - 1))
           last == q[Len(q)]
       IN IF \E n \in 1..Len(front) : front[n] = last THEN front ELSE Append(front, last)

\* #getExistingDiscounts looking at the order alone
getExistingDiscountsOfOrder(c) ==
  LET isCode(d) == d.type = "discount_code" /\ d.title # ""
      apps == SelectSeq(c.cart_level_discount_applications, isCode)
  IN Dedupe([j \in 1..Len(apps) |-> apps[j].title])

\* #getExistingDiscounts
getExistingDiscounts(c) ==
  LET isCode(d) == d.type = "discount_code" /\ d.title # ""
      isCodeAllocation(a) == isCode(a.discount_application)
      apps == SelectSeq(c.cart_level_discount_applications, isCode)
      ofOrder == [j \in 1..Len(apps) |-> apps[j].title]
      ofLine(item) ==
        LET allocations == SelectSeq(item.line_level_discount_allocations, isCodeAllocation)
        IN [j \in 1..Len(allocations) |-> allocations[j].discount_application.title]
      ofLines == Flatten([i \in 1..Len(c.items) |-> ofLine(c.items[i])])
  IN Dedupe(ofOrder \o ofLines)

Includes(q, x) == \E n \in 1..Len(q) : q[n] = x

SpInit ==
  [on |-> TRUE, isProcessing |-> FALSE, disabled |-> {}, hs |-> [h \in Handlers |-> HIdle],
   codeKind |-> "order", adds |-> 0, sent |-> 0, lastReq |-> <<>>, turnedAway |-> FALSE,
   updates |-> 0, timerBy |-> "none", passBy |-> "none",
   inCartItems |-> TRUE, adding |-> {}, ended |-> "none", endedButton |-> 0]

InitSuggested ==
  /\ fn = NoFn /\ pm = NoPm
  /\ \E kind \in {"order", "line", "none"}, inside \in BOOLEAN :
       sp = [SpInit EXCEPT !.codeKind = kind, !.inCartItems = inside]
  /\ \E c \in { k \in SmallCarts : \A n \in 1..Len(k) : ~isFreeGiftItem(k[n]) } : InitWith(c)

\* a step of the suggested-products component leaves the gift component alone
GiftComponentIdle ==
  UNCHANGED <<connected, isProcessing, processingTimeout, orphanTimers, loadTimers, procs,
              qh, milestones, uncaught, lastPass, quiet, ext, burst, lastQ, fn, pm>>

SpFreeSlot ==
  IF \E h \in Handlers : sp.hs[h].pc = "idle"
  THEN CHOOSE h \in Handlers : sp.hs[h].pc = "idle" /\ \A g \in 1..(h - 1) : sp.hs[g].pc # "idle"
  ELSE 0

\* the click guard without the flag
spNeverProcessing == FALSE

\* if (this.#isProcessing) return
spAlreadyProcessing == sp.isProcessing

\* #handleAddToCart up to its await of the add request
handleAddToCart(b) ==
  /\ sp.on
  /\ sp.adds < MaxAdds
  /\ SpFreeSlot # 0
  /\ IF spAlreadyProcessing \/ b \in sp.disabled
     THEN sp' = [sp EXCEPT !.turnedAway = \E h \in Handlers : sp.hs[h].pc # "idle"]
     ELSE sp' = [sp EXCEPT !.isProcessing = TRUE,
                           !.disabled = @ \cup {b},
                           !.adding = @ \cup {b},
                           !.ended = "none",
                           !.endedButton = 0,
                           !.hs[SpFreeSlot] = [HIdle EXCEPT !.pc = "add", !.button = b],
                           !.turnedAway = FALSE]
  /\ emitted' = <<>>
  /\ UNCHANGED <<cart, discount>>

\* a click on add button b
SpClick(b) == handleAddToCart(b) /\ GiftComponentIdle

\* the end of the handler with nothing but its finally block
SpFinallyAlone(h, how) ==
  [sp EXCEPT !.isProcessing = FALSE,
             !.ended = how,
             !.endedButton = sp.hs[h].button,
             !.hs[h] = HIdle]

\* the handler of slot h ends in the way how: "ok" at the end of the try block,
\* "status" at the return on data.status, "throw" in the catch block; the last
\* two enable the button and write '+ ADD' on it, and all run the finally block
SpFinally(h, how) ==
  [sp EXCEPT !.isProcessing = FALSE,
             !.disabled = IF how # "ok" THEN @ \ {sp.hs[h].button} ELSE @,
             !.adding = IF how # "ok" THEN @ \ {sp.hs[h].button} ELSE @,
             !.ended = how,
             !.endedButton = sp.hs[h].button,
             !.hs[h] = HIdle]

\* the detail object of a cart event, as CartAddEvent and CartUpdateEvent build
\* it: { resource, sourceId, data: { source, ... } }
Detail(ev) ==
  [resource |-> ev.resource, sourceId |-> ev.sourceId, data |-> [source |-> ev.source]]

\* obj?.name: the property, or undefined
Prop(obj, name) == IF name \in DOMAIN obj THEN obj[name] ELSE "undefined"

\* #handleCartUpdate up to its await: TRUE if it calls renderSection, FALSE if it
\* returns at its guard
spHandleCartUpdate(ev) == ~(Prop(Detail(ev), "source") = SUGGESTED_TAG)

\* document.dispatchEvent(ev) of a cart event runs the listener of the component:
\* the component after the synchronous part of #handleCartUpdate
SpDispatch(s, ev) ==
  IF s.on /\ ev.type = "cart:update" /\ spHandleCartUpdate(ev) /\ s.inCartItems
  THEN [s EXCEPT !.updates = @ + 1]
  ELSE s

\* the listener of the cart-free-gifts component sets its debounce timer for ev
FgHears(ev) == connected /\ ev.type = "cart:update" /\ ~isOwnEvent(ev)

\* the tag of the event that set the pending debounce timer is kept in timerBy
NoteTimer(s, ev) == IF s.on /\ FgHears(ev) THEN [s EXCEPT !.timerBy = ev.sourceId] ELSE s

\* the listeners of the page have run for every event of a sequence
RECURSIVE HearAll(_, _)
HearAll(s, evs) ==
  IF evs = <<>> THEN s ELSE HearAll(NoteTimer(SpDispatch(s, Head(evs)), Head(evs)), Tail(evs))

\* the CartAddEvent of #handleAddToCart
SpCartAddEvent(data) ==
  [type |-> "cart:update", sourceId |-> SUGGESTED_TAG, source |-> SUGGESTED_TAG,
   resource |-> data]

\* the response of /cart/add.js: the product is added, or the platform refuses
\* (data.status), or the request fails
SpAddResponse(h) ==
  /\ sp.hs[h].pc = "add"
  /\ \E outcome \in {"ok", "status", "throw"} :
       IF outcome = "ok"
       THEN /\ \E atTop \in BOOLEAN : cart' = PlatformAdd(cart, SuggestedItem, atTop)
            /\ emitted' = <<SpCartAddEvent(SuggestedItem)>>
            /\ sp' = HearAll([sp EXCEPT !.hs[h].pc = "sleep", !.adds = @ + 1], emitted')
            /\ LET st == Deliver(SpCartAddEvent(SuggestedItem), TimerState(milestones))
               IN SetTimers(st) /\ milestones' = st.milestones
       ELSE /\ sp' = SpFinally(h, outcome)
            /\ emitted' = <<>>
            /\ UNCHANGED <<cart, processingTimeout, orphanTimers, burst, milestones>>
  /\ UNCHANGED <<discount, connected, isProcessing, loadTimers, procs, qh, uncaught, lastPass,
                 quiet, ext, lastQ, fn, pm>>

\* await new Promise(resolve => setTimeout(resolve, 300))
SpSleepDone(h) ==
  /\ sp.hs[h].pc = "sleep"
  /\ sp' = [sp EXCEPT !.hs[h].pc = "discFetch"]
  /\ emitted' = <<>>
  /\ UNCHANGED <<cart, discount>>
  /\ GiftComponentIdle

\* #applySuggestedProductDiscount: the cart is fetched, and the update request is
\* sent unless the code is among the existing ones
SpDiscountFetchResponse(h) ==
  /\ sp.hs[h].pc = "discFetch"
  /\ \E outcome \in {"ok", "throw"} :
       \E c \in {CartJsWithDiscounts(cart, discount)} :
         \E existingDiscounts \in {getExistingDiscounts(c)} :
           IF outcome = "throw" \/ Includes(existingDiscounts, SUGGESTED_CODE)
           THEN sp' = [sp EXCEPT !.hs[h].pc = "render"]
           ELSE sp' = [sp EXCEPT !.hs[h].pc = "discUpdate",
                                 !.hs[h].existing = existingDiscounts,
                                 !.sent = @ + 1,
                                 !.lastReq = Append(existingDiscounts, SUGGESTED_CODE)]
  /\ emitted' = <<>>
  /\ UNCHANGED <<cart, discount>>
  /\ GiftComponentIdle

\* discount_codes of the response of /cart/update.js: every requested code, and
\* whether it applies; SUGGESTED5 applies if the shop has set it up
DiscountCodes(requested, kind) ==
  { [code |-> requested[n], applicable |-> (requested[n] # SUGGESTED_CODE \/ kind # "none")] :
      n \in 1..Len(requested) }

\* the test of the response without the applicable flag
listedDiscount(codes) == \E d \in codes : d.code = SUGGESTED_CODE

\* discountData.discount_codes.find(d => d.code === discountCode && d.applicable === true)
appliedDiscount(codes) == \E d \in codes : d.code = SUGGESTED_CODE /\ d.applicable = TRUE

\* POST /cart/update.js {discount: "a,b,SUGGESTED5"}: the codes of the cart become
\* the listed ones that apply
SpDiscountUpdateResponse(h) ==
  /\ sp.hs[h].pc = "discUpdate"
  /\ \E outcome \in {"ok", "errors", "throw"} :
       LET codes == DiscountCodes(sp.lastReq, sp.codeKind)
       IN IF outcome = "ok"
          THEN /\ discount' = { d.code : d \in { e \in codes : e.applicable } }
               /\ emitted' = IF ~appliedDiscount(codes) THEN <<>>
                             ELSE <<[type |-> "discount:update", sourceId |-> SUGGESTED_TAG,
                                     source |-> "none", resource |-> discount']>>
          ELSE /\ UNCHANGED discount
               /\ emitted' = <<>>
  /\ sp' = [sp EXCEPT !.hs[h].pc = "render"]
  /\ UNCHANGED cart
  /\ GiftComponentIdle

\* await sectionRenderer.renderSection(...) if the component stands inside a
\* cart-items-component with a section id, then the finally block; a failure of
\* the rendering is caught and enables the button again
SpRenderDone(h) ==
  /\ sp.hs[h].pc = "render"
  /\ \E outcome \in {"ok", "throw"} :
       /\ outcome = "throw" => sp.inCartItems
       /\ sp' = SpFinally(h, outcome)
  /\ emitted' = <<>>
  /\ UNCHANGED <<cart, discount>>
  /\ GiftComponentIdle

\* #handleCartUpdate after its await: renderSection has rendered the section
SpSectionRendered ==
  /\ sp.on
  /\ sp.updates > 0
  /\ sp' = [sp EXCEPT !.updates = @ - 1]
  /\ emitted' = <<>>
  /\ UNCHANGED <<cart, discount>>
  /\ GiftComponentIdle

\* the customer enters a discount code, or takes all codes off
SpCustomerCode(codes) ==
  /\ sp.on
  /\ discount' = codes
  /\ discount' # discount
  /\ emitted' = <<>>
  /\ UNCHANGED <<cart, sp>>
  /\ GiftComponentIdle

NextSuggested ==
  \/ \E b \in Buttons : SpClick(b)
  \/ \E h \in Handlers : SpAddResponse(h)
  \/ \E h \in Handlers : SpSleepDone(h)
  \/ \E h \in Handlers : SpDiscountFetchResponse(h)
  \/ \E h \in Handlers : SpDiscountUpdateResponse(h)
  \/ \E h \in Handlers : SpRenderDone(h)
  \/ SpSectionRendered
  \/ \E codes \in SUBSET OtherCodes : SpCustomerCode(codes \cup (discount \ OtherCodes))

SpecSuggested == InitSuggested /\ [][NextSuggested]_vars

\* the #handleAddToCart calls that have started their add request and not finished
SpInFlight == { h \in Handlers : sp.hs[h].pc # "idle" }

\* C19: from the start of the add request of #handleAddToCart until the handler
\* finishes, #isProcessing is true and the clicked button is disabled; a click on
\* any add button during that time starts no add request; at most one handler,
\* hence at most one add request, is in flight.
C19_NoDoubleSubmission ==
  [][ /\ Cardinality(SpInFlight') <= 1
      /\ \A h \in SpInFlight' : sp'.isProcessing /\ sp'.hs[h].button \in sp'.disabled
      /\ (SpInFlight # {} /\ \E b \in Buttons : SpClick(b))
           => sp'.hs = sp.hs /\ cart' = cart ]_vars

\* a click was turned away while an add request was in flight
C19_Witness ==
  /\ sp.on /\ sp.turnedAway
  /\ \E h \in Handlers : sp.hs[h].pc = "add"

CountOf(q, x) == Cardinality({ n \in 1..Len(q) : q[n] = x })

\* C20: #applySuggestedProductDiscount sends the update request only when the
\* cart does not carry SUGGESTED5, and the discount list it requests never
\* holds SUGGESTED5 twice.
C20_DiscountAppliedOnce ==
  [][ /\ sp.on /\ sp'.sent > sp.sent => SUGGESTED_CODE \notin discount
      /\ sp'.on => CountOf(sp'.lastReq, SUGGESTED_CODE) <= 1 ]_vars

\* two products were added, the code is on the cart beside another code, and the
\* second add sent no update
C20_Witness ==
  /\ sp.on /\ sp.adds = 2 /\ sp.sent = 1 /\ SpInFlight = {}
  /\ {SUGGESTED_CODE, "WELCOME"} \subseteq discount
  /\ Len(sp.lastReq) = 2

\* C26: the suggested-products component ignores the cart event it emitted
\* itself: the step of #handleAddToCart that dispatches the CartAddEvent tagged
\* cart-suggested-products starts no re-rendering of the section by
\* #handleCartUpdate.
C26_OwnEventIgnored ==
  [][ (\E h \in Handlers : SpAddResponse(h)) /\ emitted' # <<>>
        => sp'.updates = sp.updates ]_vars

\* C31: when an add of the suggested-products component fails (the response
\* carries a status, or the request or a later step throws), the handler ends
\* with the clicked button enabled and labelled '+ ADD' and with #isProcessing
\* false; when the add request itself is refused or fails, the cart is as it
\* was, no event is emitted and no discount update is sent.
C31_FailedAddRestoresButton ==
  [][ \A h \in Handlers :
        /\ (SpRenderDone(h) \/ SpAddResponse(h)) /\ sp'.ended \in {"status", "throw"}
             => /\ sp.hs[h].button \notin sp'.disabled
                /\ sp.hs[h].button \notin sp'.adding
                /\ ~sp'.isProcessing
                /\ sp'.hs[h].pc = "idle"
        /\ SpAddResponse(h) /\ sp'.adds = sp.adds
             => /\ sp'.ended \in {"status", "throw"}
                /\ emitted' = <<>>
                /\ sp'.sent = sp.sent
                /\ cart' = cart /\ discount' = discount ]_vars

\* the platform has refused an add, and the clicked button is enabled again
C31_Witness ==
  /\ sp.on /\ sp.ended = "status" /\ SpInFlight = {}
  /\ sp.endedButton \in Buttons \ sp.disabled
  /\ ~sp.isProcessing

\* C32: whenever no add request of the suggested-products component is in
\* flight, every add button of the component is enabled; in particular after a
\* successful add that leads to no re-rendering of the section.
C32_IdleButtonsEnabled ==
  (sp.on /\ SpInFlight = {} /\ ~sp.inCartItems) => sp.disabled = {}

\* C33: the discount update request is sent only by a handler whose add request
\* has succeeded and whose cart-add event has been dispatched, so never more
\* often than adds have succeeded; and the component emits a discount-update
\* event only with a response that lists SUGGESTED5 as applicable.
C33_DiscountAfterAdd ==
  [][ /\ sp'.sent <= sp'.adds
      /\ \A h \in Handlers :
            /\ sp'.hs[h].pc = "sleep" /\ sp.hs[h].pc # "sleep"
                 => /\ sp.hs[h].pc = "add" /\ sp'.adds = sp.adds + 1
                    /\ emitted' = <<SpCartAddEvent(SuggestedItem)>>
                    /\ sp'.sent = sp.sent
            /\ sp'.hs[h].pc = "discFetch" /\ sp.hs[h].pc # "discFetch" => sp.hs[h].pc = "sleep"
            /\ sp'.hs[h].pc = "discUpdate" /\ sp.hs[h].pc # "discUpdate"
                 => sp.hs[h].pc = "discFetch" /\ sp'.sent = sp.sent + 1
      /\ sp'.sent # sp.sent => \E h \in Handlers : sp.hs[h].pc = "discFetch" /\ SpDiscountFetchResponse(h)
      /\ \A n \in 1..Len(emitted') :
            emitted'[n].type = "discount:update" /\ emitted'[n].sourceId = SUGGESTED_TAG
              => /\ SUGGESTED_CODE \in emitted'[n].resource
                 /\ \E h \in Handlers : sp.hs[h].pc = "discUpdate" /\ sp'.hs[h].pc = "render" ]_vars

\* the update request was sent after an add, and its response listed SUGGESTED5 as
\* applicable: the code is on the cart and the event was emitted
C33_Witness ==
  /\ sp.on /\ sp.adds = 1 /\ sp.sent = 1
  /\ \E h \in Handlers : sp.hs[h].pc = "render"
  /\ SUGGESTED_CODE \in discount
  /\ Len(emitted) = 1 /\ emitted[1].type = "discount:update"

(***************************************************************************)
(* The free gift manager of part_000: one object per page, which listens   *)
(* for cart events, checks the cart once after the page has loaded and     *)
(* every 2 seconds while the cart drawer is open.                          *)
(* pm = [on, processing, giftsInCart, available, loadPending, runs, last]: *)
(* this.processing, this.giftsInCart (the quantity of the item found, 0    *)
(* for null), the availability this.giftProducts holds (the lookup has     *)
(* answered before the first check), and the calls in flight.  A run is a  *)
(* call of the interval callback, of checkCartOnLoad or of                 *)
(* handleCartUpdate:                                                       *)
(*   [pc, kind, given, snap, todo, cur, line, allOk, alone, log]           *)
(***************************************************************************)
PmInit(available) ==
  [NoPm EXCEPT !.on = TRUE, !.available = available, !.loadPending = TRUE]

\* the carts the manager starts from: those of at most one line, and those whose
\* paid lines reach the higher threshold
ManagerCarts ==
  { c \in InitCarts : Len(c) <= 1 \/ QualifyingSubtotal(CartJs(c)) >= thresholds.gift8000 }

\* what the lookup of the gift products has answered: both gifts are available, or
\* gift8000 is not
Availabilities == { [k \in GiftKeys |-> TRUE], [k \in GiftKeys |-> k # "gift8000"] }

InitManager ==
  /\ fn = NoFn /\ sp = NoSp
  /\ \E available \in Availabilities : pm = PmInit(available)
  /\ \E c \in ManagerCarts : InitWith(c)

\* a step of the manager: the component of cart-free-gifts.js is not on the page
ManagerOnly ==
  UNCHANGED <<discount, connected, isProcessing, processingTimeout, orphanTimers, loadTimers,
              procs, qh, milestones, uncaught, lastPass, quiet, ext, burst, lastQ, fn, sp>>

PmFreeSlot ==
  IF \E r \in Runs : pm.runs[r].pc = "idle"
  THEN CHOOSE r \in Runs : pm.runs[r].pc = "idle" /\ \A q \in 1..(r - 1) : pm.runs[q].pc # "idle"
  ELSE 0

\* updateGiftsInCart: items.find by variant id, for both gifts
updateGiftsInCart(c) ==
  [k \in GiftKeys |->
     LET isGift(item) == item.variant_id = fallbackVariantIds[k]
         i == FirstIndex(c.items, isGift)
     IN IF i = 0 THEN 0 ELSE c.items[i].quantity]

\* processCartGifts: the calls it makes, in order, for a cart total
processCartGifts(cartTotal) ==
  IF cartTotal >= thresholds.gift8000
  THEN <<[op |-> "ensure", key |-> "gift8000"], [op |-> "ensure", key |-> "gift5000"]>>
  ELSE IF cartTotal >= thresholds.gift5000
  THEN <<[op |-> "ensure", key |-> "gift5000"], [op |-> "remove", key |-> "gift8000"]>>
  ELSE <<[op |-> "remove", key |-> "gift5000"], [op |-> "remove", key |-> "gift8000"]>>

\* ensureGiftInCart up to its request: TRUE if it sends the add request
ensureGiftInCart(giftKey, gifts, available) ==
  /\ available[giftKey]
  /\ ~(gifts[giftKey] > 0)

\* removeGiftFromCart up to its request: the line it asks to remove, 0 if it returns
removeGiftFromCart(giftKey, c, gifts) ==
  LET isGift(item) == item.variant_id = fallbackVariantIds[giftKey]
  IN IF gifts[giftKey] = 0 THEN 0 ELSE FirstIndex(c.items, isGift)

\* the calls of todo are made one after the other until one of them sends a request
RECURSIVE PmAdvance(_, _, _, _)
PmAdvance(c, todo, gifts, available) ==
  IF todo = <<>> THEN [pc |-> "idle", cur |-> "none", line |-> 0, todo |-> <<>>]
  ELSE LET call == Head(todo)
       IN IF call.op = "ensure"
          THEN IF ensureGiftInCart(call.key, gifts, available)
               THEN [pc |-> "add", cur |-> call.key, line |-> 0, todo |-> Tail(todo)]
               ELSE PmAdvance(c, Tail(todo), gifts, available)
          ELSE IF removeGiftFromCart(call.key, c, gifts) # 0
               THEN [pc |-> "change", cur |-> call.key,
                     line |-> removeGiftFromCart(call.key, c, gifts), todo |-> Tail(todo)]
               ELSE PmAdvance(c, Tail(todo), gifts, available)

\* a run ends without having processed a cart
PmEnd(r, run) ==
  [pm EXCEPT !.runs[r] = PmIdle,
             !.processing = IF run.kind = "event" THEN FALSE ELSE @]

\* run r goes on with record run, the platform cart being c and this.giftsInCart
\* being gifts: the next request is sent, or the run ends
PmContinue(r, run, c, gifts) ==
  LET n == PmAdvance(run.snap, run.todo, gifts, pm.available)
  IN IF n.pc = "idle"
     THEN [pm EXCEPT !.giftsInCart = gifts,
                     !.runs[r] = PmIdle,
                     !.processing = IF run.kind = "event" THEN FALSE ELSE @,
                     !.last = [done |-> TRUE, kind |-> run.kind, snap |-> run.snap,
                               endCart |-> c, allOk |-> run.allOk, alone |-> run.alone,
                               log |-> run.log]]
     ELSE [pm EXCEPT !.giftsInCart = gifts,
                     !.runs[r] = [run EXCEPT !.pc = n.pc, !.cur = n.cur, !.line = n.line,
                                             !.todo = n.todo,
                                             !.log = Append(@, [op |-> n.pc, key |-> n.cur,
                                                                line |-> n.line])]]

\* processCartGifts(c) from its start to its first request
PmProcess(r, run, c) ==
  PmContinue(r, [run EXCEPT !.snap = c, !.todo = processCartGifts(c.total_price)],
             cart, updateGiftsInCart(c))

\* a call starts in the free slot; the calls in flight are no longer alone
PmStartRun(run) ==
  [pm EXCEPT !.last = PmNoRun,
             !.runs = [r \in Runs |->
                         IF r = PmFreeSlot
                         THEN [run EXCEPT !.alone = \A q \in Runs : pm.runs[q].pc = "idle"]
                         ELSE IF pm.runs[r].pc # "idle"
                         THEN [pm.runs[r] EXCEPT !.alone = FALSE]
                         ELSE pm.runs[r]]]

\* startPeriodicCheck: the interval fires; with the drawer open the cart is fetched
startPeriodicCheck ==
  /\ pm.on
  /\ PmFreeSlot # 0
  /\ \E open \in BOOLEAN :
       /\ open
       /\ pm' = PmStartRun([PmIdle EXCEPT !.pc = "fetch", !.kind = "tick"])
  /\ emitted' = <<>>
  /\ UNCHANGED cart
  /\ ManagerOnly

\* checkCartOnLoad after its wait of 1000 ms
checkCartOnLoad ==
  /\ pm.on
  /\ pm.loadPending
  /\ PmFreeSlot # 0
  /\ pm' = [PmStartRun([PmIdle EXCEPT !.pc = "fetch", !.kind = "load"])
              EXCEPT !.loadPending = FALSE]
  /\ emitted' = <<>>
  /\ UNCHANGED cart
  /\ ManagerOnly

\* handleCartUpdate up to its wait of 500 ms; both listeners of init() run it, and
\* the second call finds this.processing set by the first
pmHandleCartUpdate(ev) ==
  /\ pm.on
  /\ PmFreeSlot # 0
  /\ ev.source # SOURCE_TAG
  /\ ~pm.processing
  /\ pm' = [PmStartRun([PmIdle EXCEPT !.pc = "delay", !.kind = "event",
                                      !.given = ev.resource])
              EXCEPT !.processing = TRUE]
  /\ emitted' = <<>>
  /\ UNCHANGED cart
  /\ ManagerOnly

\* handleCartUpdate after the wait: the cart of the event is processed, or the cart
\* is fetched
PmDelayDone(r) ==
  /\ pm.runs[r].pc = "delay"
  /\ IF pm.runs[r].given # Null
     THEN pm' = PmProcess(r, pm.runs[r], pm.runs[r].given)
     ELSE pm' = [pm EXCEPT !.runs[r].pc = "fetch"]
  /\ emitted' = <<>>
  /\ UNCHANGED cart
  /\ ManagerOnly

\* the test of the fetched cart without the item count
cartFetched(c) == c # Null

\* if (cart && cart.item_count > 0) of the interval callback and of checkCartOnLoad
cartHasItems(c) == c # Null /\ c.item_count > 0

\* fetchCart returns the cart, or null on a failure; handleCartUpdate tests the
\* cart alone, the two checks test its item count as well
PmFetchResponse(r) ==
  /\ pm.runs[r].pc = "fetch"
  /\ \E outcome \in {"ok", "throw"} :
       \E c \in {IF outcome = "throw" THEN Null ELSE CartJs(cart)} :
         LET run == pm.runs[r]
         IN IF (run.kind = "event" /\ c # Null) \/ (run.kind # "event" /\ cartHasItems(c))
            THEN pm' = PmProcess(r, run, c)
            ELSE pm' = PmEnd(r, run)
  /\ emitted' = <<>>
  /\ UNCHANGED cart
  /\ ManagerOnly

\* ensureGiftInCart: the response of /cart/add.js
PmAddResponse(r) ==
  /\ pm.runs[r].pc = "add"
  /\ \E outcome \in {"ok", "status", "throw"}, atTop \in BOOLEAN :
       LET run == pm.runs[r]
       IN IF outcome = "ok"
          THEN /\ cart' = PlatformAdd(cart, GiftItem(fallbackVariantIds[run.cur], TRUE), atTop)
               /\ emitted' = <<[type |-> "cart:update", sourceId |-> SOURCE_TAG,
                                source |-> SOURCE_TAG, resource |-> Null]>>
               /\ pm' = PmContinue(r, run, cart', pm.giftsInCart)
          ELSE /\ atTop
               /\ UNCHANGED cart
               /\ emitted' = <<>>
               /\ pm' = PmContinue(r, [run EXCEPT !.allOk = FALSE], cart, pm.giftsInCart)
  /\ ManagerOnly

\* removeGiftFromCart: the response of /cart/change.js
PmChangeResponse(r) ==
  /\ pm.runs[r].pc = "change"
  /\ \E outcome \in {"ok", "throw"} :
       LET run == pm.runs[r]
       IN IF outcome = "ok" /\ ChangeAccepted(cart, run.line)
          THEN /\ cart' = PlatformChange(cart, run.line, 0)
               /\ emitted' = <<[type |-> "cart:update", sourceId |-> SOURCE_TAG,
                                source |-> SOURCE_TAG, resource |-> CartJs(cart')]>>
               /\ pm' = PmContinue(r, run, cart', pm.giftsInCart)
          ELSE /\ UNCHANGED cart
               /\ emitted' = <<>>
               /\ pm' = PmContinue(r, [run EXCEPT !.allOk = FALSE], cart, pm.giftsInCart)
  /\ ManagerOnly

NextManager ==
  \/ startPeriodicCheck
  \/ checkCartOnLoad
  \/ \E ev \in ExternalEvents(cart) : pmHandleCartUpdate(ev)
  \/ \E r \in Runs : PmDelayDone(r)
  \/ \E r \in Runs : PmFetchResponse(r)
  \/ \E r \in Runs : PmAddResponse(r)
  \/ \E r \in Runs : PmChangeResponse(r)

SpecManager == InitManager /\ [][NextManager]_vars

(***************************************************************************)
(* Both reconcilers: a page carries the component of cart-free-gifts.js,   *)
(* which runs its passes as in SpecPass, or the manager of part_000.       *)
(***************************************************************************)
InitGifts ==
  \/ OthersInit /\ \E c \in ManagerCarts : InitWith(c)
  \/ InitManager

NextGifts ==
  \/ connectedCallback /\ ~pm.on /\ OthersIdle
  \/ Quiescent /\ ~pm.on /\ \E ev \in ExternalEvents(cart) : CartEvent(ev) /\ OthersIdle
  \/ LoadTimerFires /\ OthersIdle
  \/ DebounceTimerFires /\ OthersIdle
  \/ \E i \in Procs : FetchCartResponse(i) /\ OthersIdle
  \/ \E i \in Procs : AddResponse(i) /\ OthersIdle
  \/ \E i \in Procs : DiscountFetchResponse(i) /\ OthersIdle
  \/ \E i \in Procs : DiscountUpdateResponse(i) /\ OthersIdle
  \/ \E i \in Procs : AddRefetchResponse(i) /\ OthersIdle
  \/ \E i \in Procs : ChangeResponse(i) /\ OthersIdle
  \/ \E i \in Procs : RemoveRefetchResponse(i) /\ OthersIdle
  \/ \E i \in Procs : SleepDone(i) /\ OthersIdle
  \/ \E i \in Procs : TailFetchResponse(i) /\ OthersIdle
  \/ startPeriodicCheck
  \/ checkCartOnLoad
  \/ \E ev \in ExternalEvents(cart) : pmHandleCartUpdate(ev)
  \/ \E r \in Runs : PmDelayDone(r)
  \/ \E r \in Runs : PmFetchResponse(r)
  \/ \E r \in Runs : PmAddResponse(r)
  \/ \E r \in Runs : PmChangeResponse(r)

SpecGifts == InitGifts /\ [][NextGifts]_vars

\* the periodic check or the load check in slot r has its cart and goes on to
\* processCartGifts
PmCheckProcesses(r) ==
  /\ pm.runs[r].pc = "fetch" /\ pm.runs[r].kind \in {"tick", "load"}
  /\ \/ pm'.runs[r].pc \in {"add", "change"}
     \/ pm'.runs[r].pc = "idle" /\ pm'.last.done /\ pm'.last # pm.last

PmRunSucceeded == pm.last.done /\ pm.last.allOk /\ pm.last.alone

NoChangeIn(log) == \A n \in 1..Len(log) : log[n].op # "change"

\* C14: gifts stack.  After a pass of the component, or a run of the manager with
\* both gifts available, that ran to completion undisturbed with every request
\* succeeding on a cart whose subtotal is at or above 800000, both gift variants
\* are in the cart; and no pass or run on such a cart asks for the removal of a
\* gift.
C14_GiftsStack ==
  /\ PassSucceeded /\ QualifyingSubtotal(lastPass.snap) >= FREE_GIFT_CONFIG.gift8000.threshold
       => \A k \in GiftKeys : GiftLines(lastPass.endCart, k) # {}
  /\ lastPass.done /\ lastPass.snap # Null
       => (QualifyingSubtotal(lastPass.snap) >= FREE_GIFT_CONFIG.gift8000.threshold
             => NoChangeIn(lastPass.log))
  /\ PmRunSucceeded /\ (\A k \in GiftKeys : pm.available[k])
       /\ QualifyingSubtotal(pm.last.snap) >= thresholds.gift8000
       => \A k \in GiftKeys : GiftLines(pm.last.endCart, k) # {}
  /\ pm.last.done
       => (QualifyingSubtotal(pm.last.snap) >= thresholds.gift8000 => NoChangeIn(pm.last.log))

\* a pass of the component found gift5000 in a cart that reaches 800000, added
\* gift8000 and left gift5000 where it was
C14_Witness ==
  /\ PassSucceeded
  /\ QualifyingSubtotal(lastPass.snap) >= FREE_GIFT_CONFIG.gift8000.threshold
  /\ GiftItems(lastPass.snap, "gift5000") # {}
  /\ GiftItems(lastPass.snap, "gift8000") = {}
  /\ Len(lastPass.log) = 1 /\ lastPass.log[1].op = "add"
  /\ \A k \in GiftKeys : GiftLines(lastPass.endCart, k) # {}

\* the units of gift k in a platform cart
GiftQuantity(c, k) ==
  LET units(it) == IF it.variant_id = FREE_GIFT_CONFIG[k].variantId THEN it.quantity ELSE 0
  IN SumOver(c, units)

\* C17: no reconciler sends a second add for a gift variant that is in the cart:
\* whenever the units of a gift variant in the cart grow, which only an add request
\* of a reconciler does here, the cart held no line of that variant before.
C17_NoSecondAdd ==
  [][ \A k \in GiftKeys :
        GiftQuantity(cart', k) > GiftQuantity(cart, k) => GiftLines(cart, k) = {} ]_vars

\* the executions of processCartGifts of the manager that are in flight: the runs
\* that wait for the response of a request processCartGifts has sent
PmProcessing == { r \in Runs : pm.runs[r].pc \in {"add", "change"} }

\* C25: in the polling manager at most one execution of processCartGifts is in
\* flight at any time, whichever of handleCartUpdate, the periodic check and the
\* initial load check started it, and no two executions wait for the response of
\* an add request for the same gift variant.
C25_OneProcessCartGifts ==
  /\ Cardinality(PmProcessing) <= 1
  /\ \A r, q \in Runs :
       r # q /\ pm.runs[r].pc = "add" /\ pm.runs[q].pc = "add"
         => pm.runs[r].cur # pm.runs[q].cur

\* the units of gift k in a platform cart that the customer added: the lines of
\* the variant without the _auto_gift property
CustomerUnits(c, k) ==
  LET units(it) ==
        IF it.variant_id = FREE_GIFT_CONFIG[k].variantId /\ ~it.auto THEN it.quantity ELSE 0
  IN SumOver(c, units)

\* C21: a gift line the customer added (no _auto_gift property) is never set to
\* quantity 0 by a reconciler: no step of a pass or of a run of the manager lowers
\* the units of a gift variant that the customer added.
C21_OnlyAutoAddedRemoved ==
  [][ \A k \in GiftKeys : CustomerUnits(cart', k) >= CustomerUnits(cart, k) ]_vars

\* after the response to the request of callback i the pass goes on with its next
\* request, or it has ended with the flag cleared
PassGoesOn(i) ==
  LET p == procs[i]
      n == NextOp(p.snap, p.mode, p.todo, p.total)
  IN IF n.pc = "end"
     THEN ~isProcessing' /\ lastPass'.done /\ ~InPass(i)'
     ELSE procs'[i].pc = n.pc /\ procs'[i].cur = n.cur /\ isProcessing'

\* the request callback i was waiting for is answered in this step
Answered(i) == procs'[i].pc # procs[i].pc \/ procs'[i].reqs # procs[i].reqs

\* C22: a mutation the platform did not carry out is a no-op.  When the response
\* of the add request leaves the cart as it was, no discount code is applied, no
\* event is emitted and the pass goes on with the remaining gift; when the
\* response of the change request leaves the cart as it was, no event is emitted
\* and the pass goes on; a pass that ends so ends with #isProcessing false.
C22_RejectedMutationIsNoOp ==
  [][ \A i \in Procs :
        /\ procs[i].pc = "add" /\ Answered(i) /\ cart' = cart
             => discount' = discount /\ emitted' = <<>> /\ PassGoesOn(i)
        /\ procs[i].pc = "change" /\ Answered(i) /\ cart' = cart
             => /\ emitted' = <<>>
                /\ IF procs[i].mode = "removeAll" THEN procs'[i].pc = "sleep"
                   ELSE PassGoesOn(i) ]_vars

\* a pass on a cart that reaches 800000 without a gift: its add of gift8000 was
\* refused, it went on to add gift5000, and it ended with the flag cleared
C22_Witness ==
  /\ lastPass.done /\ ~lastPass.allOk /\ ~isProcessing
  /\ Len(lastPass.log) = 2
  /\ lastPass.log[1].op = "add" /\ lastPass.log[1].variantId = FREE_GIFT_CONFIG.gift8000.variantId
  /\ lastPass.log[2].op = "add" /\ lastPass.log[2].variantId = FREE_GIFT_CONFIG.gift5000.variantId
  /\ GiftLines(lastPass.endCart, "gift8000") = {}
  /\ GiftLines(lastPass.endCart, "gift5000") # {}
  /\ discount = {getDiscountCodeForVariant(FREE_GIFT_CONFIG.gift5000.variantId)}

\* the lines of a platform cart that hold no gift variant, in cart order
NonGiftLines(c) ==
  LET paid(it) == ~isFreeGiftItem(it)
  IN SelectSeq(c, paid)

\* C23: the reconciler never removes or alters a line that holds no gift variant:
\* no step of a pass changes the non-gift lines of the cart, also when two gift
\* lines are removed in one pass with the line numbers of the snapshot.
C23_NonGiftLinesUntouched ==
  [][ NonGiftLines(cart') = NonGiftLines(cart) ]_vars

\* C29: the quantity-lock guard leaves everything else alone.  A call of
\* #handleQuantityUpdate that ended undisturbed for a line that holds no gift
\* variant or is out of range, or for a gift line with quantity 1, has sent no
\* change request and has not vetoed the event; and the change request the guard
\* sends changes no line but the notified one.
C29_GuardFrame ==
  [][ /\ lastQ'.done /\ lastQ'.clean /\ (~lastQ'.onGift \/ lastQ'.quantity = 1)
           => ~lastQ'.sent /\ ~lastQ'.prevented
      /\ qh.pc = "change" /\ qh'.pc = "idle"
           => /\ Len(cart') = Len(cart)
              /\ \A j \in 1..Len(cart) : j # qh.line => cart'[j] = cart[j] ]_vars

\* the guard was notified of quantity 1 on a gift line and sent nothing
C29_Witness ==
  /\ lastQ.done /\ lastQ.clean /\ lastQ.onGift /\ lastQ.quantity = 1
  /\ ~lastQ.sent /\ ~lastQ.prevented

\* C28: applying a discount code never removes a code already applied to the
\* cart: every code on the cart before a step of a pass is on the cart after it,
\* so that a pass that adds both gifts leaves FREEGIFT8000 and FREEGIFT5000 on
\* the cart.
C28_CodesRetained ==
  [][ discount \subseteq discount' ]_vars

(***************************************************************************)
(* The reconciler under fair scheduling.  The customer and the other       *)
(* components change the cart at most MaxExt times and announce every      *)
(* change by a cart event; every request succeeds; every pending timer     *)
(* fires and every request is answered.                                    *)
(***************************************************************************)
\* the cart event of another component that announces a cart change
Announcement ==
  [type |-> "cart:update", sourceId |-> "other", source |-> "other", resource |-> Null]

\* a cart change by others, heard by #handleCartUpdate
AnnouncedChange(c) ==
  /\ connected
  /\ ext > 0
  /\ ext' = ext - 1
  /\ cart' = c
  /\ LET st == handleCartUpdate(Announcement, TimerState(milestones))
     IN SetTimers(st) /\ milestones' = st.milestones
  /\ emitted' = <<Announcement>>
  /\ UNCHANGED <<discount, connected, isProcessing, loadTimers, procs, qh, uncaught,
                 lastPass, quiet, lastQ>>

AnnouncedAdd(item) ==
  /\ \/ Len(cart) < MaxLines /\ \A j \in 1..Len(cart) : LineKey(cart[j]) # LineKey(item)
     \/ \E j \in 1..Len(cart) : LineKey(cart[j]) = LineKey(item) /\ cart[j].quantity < MaxQty
  /\ \E atTop \in BOOLEAN : AnnouncedChange(PlatformAdd(cart, item, atTop))

AnnouncedSetQuantity(line, quantity) ==
  /\ line \in 1..Len(cart)
  /\ cart[line].quantity # quantity
  /\ AnnouncedChange(PlatformChange(cart, line, quantity))

\* no request of a pass has failed: neither a network error nor a refusal
NoFailure == (\A i \in Procs : procs[i].clean) /\ (lastPass.done => lastPass.clean)

RequestStep ==
  \/ \E i \in Procs : FetchCartResponse(i)
  \/ \E i \in Procs : AddResponse(i)
  \/ \E i \in Procs : DiscountFetchResponse(i)
  \/ \E i \in Procs : DiscountUpdateResponse(i)
  \/ \E i \in Procs : AddRefetchResponse(i)
  \/ \E i \in Procs : ChangeResponse(i)
  \/ \E i \in Procs : RemoveRefetchResponse(i)
  \/ \E i \in Procs : SleepDone(i)
  \/ \E i \in Procs : TailFetchResponse(i)

NextLive ==
  \/ connectedCallback /\ OthersIdle
  \/ \E item \in ExternalItems : AnnouncedAdd(item) /\ OthersIdle
  \/ \E line \in 1..Len(cart), quantity \in 0..MaxQty :
       AnnouncedSetQuantity(line, quantity) /\ OthersIdle
  \/ LoadTimerFires /\ OthersIdle
  \/ DebounceTimerFires /\ OthersIdle
  \/ \E i \in Procs : FetchCartResponse(i) /\ NoFailure' /\ OthersIdle
  \/ \E i \in Procs : AddResponse(i) /\ NoFailure' /\ OthersIdle
  \/ \E i \in Procs : DiscountFetchResponse(i) /\ NoFailure' /\ OthersIdle
  \/ \E i \in Procs : DiscountUpdateResponse(i) /\ NoFailure' /\ OthersIdle
  \/ \E i \in Procs : AddRefetchResponse(i) /\ NoFailure' /\ OthersIdle
  \/ \E i \in Procs : ChangeResponse(i) /\ NoFailure' /\ OthersIdle
  \/ \E i \in Procs : RemoveRefetchResponse(i) /\ NoFailure' /\ OthersIdle
  \/ \E i \in Procs : SleepDone(i) /\ OthersIdle
  \/ \E i \in Procs : TailFetchResponse(i) /\ OthersIdle

\* a step of the page itself: the element is connected, a timer fires or a
\* request is answered with success
SystemStep ==
  \/ connectedCallback
  \/ LoadTimerFires
  \/ DebounceTimerFires
  \/ RequestStep /\ NoFailure'

\* the page goes on while it has something to do
Fairness == WF_vars(SystemStep /\ OthersIdle)

SpecLive == Init /\ [][NextLive]_vars /\ Fairness

\* each gift variant is in the cart if and only if the qualifying subtotal of the
\* cart is at or above its threshold
Reconciled ==
  \A k \in GiftKeys : GiftLines(cart, k) # {} <=> Qualifies(CartJs(cart), k)

\* C24: once the announced cart changes have stopped, and every request
\* succeeding, the cart reaches the reconciled state and stays in it.
C24_EventualConvergence == <>[]Reconciled

(***************************************************************************)
(* One page with both components: the cart-free-gifts element and the      *)
(* suggested-products component inside the cart items.  An event that one  *)
(* of them dispatches runs the listeners of both.  sp.timerBy is the tag   *)
(* of the event that set the pending debounce timer of the element, and    *)
(* sp.passBy the tag of the one whose timer started the pass in flight     *)
(* ("load" for the timer of connectedCallback).                            *)
(***************************************************************************)
\* the carts of the page: empty, one paid line below the first threshold, or one
\* gift line the component added
PageCarts ==
  { c \in SmallCarts :
      \A n \in 1..Len(c) :
        \/ c[n].final_price = 300000
        \/ c[n] = GiftLine("gift5000", 1, TRUE) }

InitPage ==
  /\ fn = NoFn /\ pm = NoPm /\ sp = SpInit
  /\ \E c \in PageCarts : InitWith(c)

PageFrame == UNCHANGED <<fn, pm>>

\* the one click of the customer on an add button
PageClick(b) ==
  /\ ext > 0
  /\ ext' = ext - 1
  /\ handleAddToCart(b)
  /\ UNCHANGED <<connected, isProcessing, processingTimeout, orphanTimers, loadTimers, procs,
                 qh, milestones, uncaught, lastPass, quiet, burst, lastQ>>
  /\ PageFrame

\* the listeners of the suggested-products component hear the events of the step
SpHears == sp' = HearAll(sp, emitted')

\* the cart events another component dispatches
Notifications(c) == { ev \in ExternalEvents(c) : ev.sourceId = "other" /\ ev.source = "other" }

\* the one notification of a cart change by another component
PageNotification(ev) ==
  /\ connected
  /\ ext > 0
  /\ ext' = ext - 1
  /\ LET st == handleCartUpdate(ev, TimerState(milestones))
     IN SetTimers(st) /\ milestones' = st.milestones
  /\ emitted' = <<ev>>
  /\ SpHears
  /\ UNCHANGED <<cart, discount, connected, isProcessing, loadTimers, procs, qh, uncaught,
                 lastPass, quiet, lastQ>>
  /\ PageFrame

\* a timer of the element fires; the pass it starts is the pass of that timer
PageLoadTimerFires ==
  /\ LoadTimerFires
  /\ sp' = [sp EXCEPT !.passBy = IF isProcessing THEN @ ELSE "load"]
  /\ PageFrame

PageDebounceTimerFires ==
  /\ DebounceTimerFires
  /\ sp' = [sp EXCEPT !.passBy = IF isProcessing THEN @ ELSE sp.timerBy]
  /\ PageFrame

\* the steps the page takes by itself
PageSystemStep ==
  \/ connectedCallback /\ UNCHANGED sp /\ PageFrame
  \/ PageLoadTimerFires
  \/ PageDebounceTimerFires
  \/ \E i \in Procs : FetchCartResponse(i) /\ SpHears /\ PageFrame
  \/ \E i \in Procs : AddResponse(i) /\ SpHears /\ PageFrame
  \/ \E i \in Procs : DiscountFetchResponse(i) /\ SpHears /\ PageFrame
  \/ \E i \in Procs : DiscountUpdateResponse(i) /\ SpHears /\ PageFrame
  \/ \E i \in Procs : AddRefetchResponse(i) /\ SpHears /\ PageFrame
  \/ \E i \in Procs : ChangeResponse(i) /\ SpHears /\ PageFrame
  \/ \E i \in Procs : RemoveRefetchResponse(i) /\ SpHears /\ PageFrame
  \/ \E i \in Procs : SleepDone(i) /\ SpHears /\ PageFrame
  \/ \E i \in Procs : TailFetchResponse(i) /\ SpHears /\ PageFrame
  \/ \E h \in Handlers : SpAddResponse(h)
  \/ \E h \in Handlers : SpSleepDone(h)
  \/ \E h \in Handlers : SpDiscountFetchResponse(h)
  \/ \E h \in Handlers : SpDiscountUpdateResponse(h)
  \/ \E h \in Handlers : SpRenderDone(h)
  \/ SpSectionRendered

NextPage ==
  \/ \E ev \in Notifications(cart) : PageNotification(ev)
  \/ \E b \in Buttons : PageClick(b)
  \/ connectedCallback /\ UNCHANGED sp /\ PageFrame
  \/ PageLoadTimerFires
  \/ PageDebounceTimerFires
  \/ \E i \in Procs : FetchCartResponse(i) /\ SpHears /\ PageFrame
  \/ \E i \in Procs : AddResponse(i) /\ SpHears /\ PageFrame
  \/ \E i \in Procs : DiscountFetchResponse(i) /\ SpHears /\ PageFrame
  \/ \E i \in Procs : DiscountUpdateResponse(i) /\ SpHears /\ PageFrame
  \/ \E i \in Procs : AddRefetchResponse(i) /\ SpHears /\ PageFrame
  \/ \E i \in Procs : ChangeResponse(i) /\ SpHears /\ PageFrame
  \/ \E i \in Procs : RemoveRefetchResponse(i) /\ SpHears /\ PageFrame
  \/ \E i \in Procs : SleepDone(i) /\ SpHears /\ PageFrame
  \/ \E i \in Procs : TailFetchResponse(i) /\ SpHears /\ PageFrame
  \/ \E h \in Handlers : SpAddResponse(h)
  \/ \E h \in Handlers : SpSleepDone(h)
  \/ \E h \in Handlers : SpDiscountFetchResponse(h)
  \/ \E h \in Handlers : SpDiscountUpdateResponse(h)
  \/ \E h \in Handlers : SpRenderDone(h)
  \/ SpSectionRendered

\* timers fire and requests are answered
PageFairness == WF_vars(PageSystemStep)

SpecPage == InitPage /\ [][NextPage]_vars /\ PageFairness

\* no timer is pending and no handler of either component is in flight
PageQuiet ==
  /\ pendingDebounce = 0 /\ loadTimers = 0
  /\ Quiescent /\ qh.pc = "idle"
  /\ SpInFlight = {} /\ sp.updates = 0

\* a callback of the element sends a request that changes the cart
FgSendsMutation ==
  \E i \in Procs : procs'[i].pc \in {"add", "change", "discUpdate"} /\ procs'[i].pc # procs[i].pc


\* a handler of the suggested-products component starts
SpStartsHandler == \E h \in Handlers : sp.hs[h].pc = "idle" /\ sp'.hs[h].pc = "add"

\* C27: after the one notification of a cart change (the event of another
\* component, or the customer's click on an add button, whose cart-add event the
\* element hears), the two components come to rest: no timer is pending and no
\* handler is in flight, for good.  The events of the cart-free-gifts element
\* never start a handler of the suggested-products component, which sends its
\* requests only for a click; the element's own events never set its timer; and
\* the pass that sends a cart-mutating request is the pass of the load timer, of
\* the notification or of the cart-add event of the suggested-products component.
C27_Quiescence ==
  /\ <>[]PageQuiet
  /\ [][SpStartsHandler => ext' < ext]_vars
  /\ [][FgSendsMutation => sp'.passBy \in {"load", "other", SUGGESTED_TAG}]_vars
  /\ [](sp.timerBy # SOURCE_TAG)

\* the click added the suggested product to a cart of 300000, the pass its event
\* started added gift5000, and the page has come to rest
C27_Witness ==
  /\ PageQuiet /\ ext = 0 /\ sp.adds = 1
  /\ sp.passBy = SUGGESTED_TAG
  /\ lastPass.done /\ lastPass.reqs > 0
  /\ GiftLines(cart, "gift5000") # {}

\* the statement with its last clause as written: the page comes to rest, and the
\* events of one component never make the other send a cart-mutating request
C27_NoCrossMutation ==
  /\ <>[]PageQuiet
  /\ [][SpStartsHandler => ext' < ext]_vars
  /\ [][FgSendsMutation => sp'.passBy # SUGGESTED_TAG]_vars

(***************************************************************************)
(* The end of the element's life.                                          *)
(***************************************************************************)
\* the requests of a pass and of the debounce callback
RequestPcs == {"fetch", "add", "discFetch", "discUpdate", "addRefetch", "change", "rmRefetch", "tail"}

\* C34: after disconnectedCallback the cart-free-gifts component starts no
\* reconciliation pass and sends no cart request: while it is disconnected no
\* callback of it moves on to a request.
C34_NoWorkAfterDisconnect ==
  [][ ~connected /\ ~connected'
        => \A i \in Procs : procs'[i].pc \in RequestPcs => procs'[i] = procs[i] ]_vars

(***************************************************************************)
(* The page load alone: the element is connected to a page whose cart      *)
(* nobody changes and no cart event arrives; the load timer fires and      *)
(* every request is answered with success.                                 *)
(***************************************************************************)
NextLoad ==
  \/ connectedCallback /\ OthersIdle
  \/ LoadTimerFires /\ OthersIdle
  \/ \E i \in Procs : FetchCartResponse(i) /\ NoFailure' /\ OthersIdle
  \/ \E i \in Procs : AddResponse(i) /\ NoFailure' /\ OthersIdle
  \/ \E i \in Procs : DiscountFetchResponse(i) /\ NoFailure' /\ OthersIdle
  \/ \E i \in Procs : DiscountUpdateResponse(i) /\ NoFailure' /\ OthersIdle
  \/ \E i \in Procs : AddRefetchResponse(i) /\ NoFailure' /\ OthersIdle
  \/ \E i \in Procs : ChangeResponse(i) /\ NoFailure' /\ OthersIdle
  \/ \E i \in Procs : RemoveRefetchResponse(i) /\ NoFailure' /\ OthersIdle
  \/ \E i \in Procs : SleepDone(i) /\ OthersIdle

SpecLoad == InitPass /\ [][NextLoad]_vars /\ WF_vars(NextLoad)

\* a pass has started on the load timer
LoadPassStarted == lastPass.done \/ \E i \in Procs : procs[i].kind = "load"

\* C35: after the element is connected a reconciliation pass starts without any
\* cart event, and the cart it leaves holds each gift if and only if the cart
\* qualifies for it.
C35_LoadReconciles == <>LoadPassStarted /\ <>[]Reconciled

(***************************************************************************)
(* The gift lookup of the manager of part_000.  loadGiftProducts fetches   *)
(* /?section_id=free-gift-lookup and parses its text as JSON.  A JSON      *)
(* value is [t, s, n]: its type, and its text or its number.  The lookup   *)
(* prints ids as strings or numbers; an entry may lack its fields.         *)
(* fn = [kind, giftProducts, loads, last, settled, verdict]: the calls of  *)
(* loadGiftProducts awaiting their response ("init" is the call of init(), *)
(* "process" the one processCartGifts awaits), the response that settled   *)
(* last, and what the last processCartGifts found of the configuration.    *)
(***************************************************************************)
JsUndefined == [t |-> "undefined", s |-> "", n |-> 0]

JsNull == [t |-> "null", s |-> "", n |-> 0]

JsTrue == [t |-> "true", s |-> "", n |-> 0]

JsFalse == [t |-> "false", s |-> "", n |-> 0]

JsString(x) == [t |-> "string", s |-> x, n |-> 0]

JsNumber(x) == [t |-> "number", s |-> "", n |-> x]

Digits == <<"0", "1", "2", "3", "4", "5", "6", "7", "8", "9">>

\* the decimal numeral of a natural number
RECURSIVE NumeralOf(_)
NumeralOf(x) == IF x < 10 THEN Digits[x + 1] ELSE NumeralOf(x \div 10) \o Digits[(x % 10) + 1]

\* String(v)
JsToString(v) ==
  CASE v.t = "string" -> v.s
    [] v.t = "number" -> NumeralOf(v.n)
    [] OTHER -> v.t

\* the truthiness of a value
Truthy(v) == (v.t = "string" /\ v.s # "") \/ (v.t = "number" /\ v.n # 0) \/ v.t = "true"

\* a || b with the fallback dropped
FirstOperand(a, b) == a

\* a || b
Or(a, b) == IF Truthy(a) THEN a ELSE b

\* the entry of one gift in the parsed response; present is FALSE if the response
\* has no such entry
NoEntry == [present |-> FALSE, variantId |-> JsUndefined, available |-> JsUndefined]

VariantIdValues ==
  {JsUndefined, JsNull, JsString(""), JsNumber(0), JsNumber(44), JsString("55")}

Entries ==
  {NoEntry} \cup [present : {TRUE}, variantId : VariantIdValues,
                  available : {JsUndefined, JsTrue, JsFalse}]

\* the ways the lookup settles: the fetch fails, the text is no JSON, the JSON is
\* null, the JSON is an object with or without the two entries
LookupResponses ==
  [kind : {"network", "malformed", "null"}, gift5000 : {NoEntry}, gift8000 : {NoEntry}]
    \cup [kind : {"object"}, gift5000 : Entries, gift8000 : Entries]

NotLoaded ==
  [loaded |-> FALSE,
   gift5000 |-> [variantId |-> "", available |-> FALSE],
   gift8000 |-> [variantId |-> "", available |-> FALSE]]

\* loadedProducts.giftN?.name
OptionalMember(entry, name) == IF entry.present THEN entry[name] ELSE JsUndefined

\* loadGiftProducts: this.giftProducts after the response has been handled; a
\* failed fetch, a text that is no JSON and the read of a property of null end in
\* the catch block
loadGiftProducts(response) ==
  IF response.kind # "object"
  THEN [loaded |-> TRUE,
        gift5000 |-> [variantId |-> fallbackVariantIds.gift5000, available |-> TRUE],
        gift8000 |-> [variantId |-> fallbackVariantIds.gift8000, available |-> TRUE]]
  ELSE [k \in {"loaded"} \cup GiftKeys |->
          IF k = "loaded" THEN TRUE
          ELSE [variantId |-> JsToString(Or(OptionalMember(response[k], "variantId"),
                                          JsString(fallbackVariantIds[k]))),
                available |-> OptionalMember(response[k], "available") # JsFalse]]

\* the tests of ensureGiftInCart on the configuration of gift k
ensureGiftConfigured(giftProducts, k) ==
  IF ~giftProducts.loaded THEN "notLoaded"
  ELSE IF giftProducts[k].variantId = "" THEN "notConfigured"
  ELSE IF giftProducts[k].available = FALSE THEN "notAvailable"
  ELSE "configured"

\* what processCartGifts finds of the configuration once it is past its await
Configuration(giftProducts) ==
  IF ~giftProducts.loaded THEN [k \in GiftKeys |-> "notLoaded"]
  ELSE [k \in GiftKeys |-> ensureGiftConfigured(giftProducts, k)]

NoVerdict == [k \in GiftKeys |-> "none"]

InitLookup ==
  /\ sp = NoSp /\ pm = NoPm
  /\ InitWith(<<>>)
  /\ fn = [kind |-> "lookup", giftProducts |-> NotLoaded, loads |-> {"init"},
           last |-> [kind |-> "none", gift5000 |-> NoEntry, gift8000 |-> NoEntry],
           settled |-> FALSE, verdict |-> NoVerdict]

LookupFrame ==
  UNCHANGED <<cart, discount, connected, isProcessing, processingTimeout, orphanTimers,
              loadTimers, procs, qh, milestones, emitted, uncaught, lastPass, quiet, ext,
              burst, lastQ, sp, pm>>

\* a call of loadGiftProducts settles with the given response; processCartGifts
\* goes on if it awaited this call
LookupSettles(who, response) ==
  /\ fn.kind = "lookup"
  /\ who \in fn.loads
  /\ fn' = [fn EXCEPT !.giftProducts = loadGiftProducts(response),
                      !.loads = @ \ {who},
                      !.last = response,
                      !.settled = TRUE,
                      !.verdict = IF who = "process"
                                  THEN Configuration(loadGiftProducts(response)) ELSE @]
  /\ LookupFrame

\* processCartGifts: it awaits loadGiftProducts if this.giftProducts is null
ProcessAwaitsLookup ==
  /\ fn.kind = "lookup"
  /\ "process" \notin fn.loads
  /\ IF ~fn.giftProducts.loaded
     THEN fn' = [fn EXCEPT !.loads = @ \cup {"process"}, !.verdict = NoVerdict]
     ELSE fn' = [fn EXCEPT !.verdict = Configuration(fn.giftProducts)]
  /\ LookupFrame

NextLookup ==
  \/ \E who \in {"init", "process"}, response \in LookupResponses : LookupSettles(who, response)
  \/ ProcessAwaitsLookup

SpecLookup == InitLookup /\ [][NextLookup]_vars

\* the lookup has returned a variant id for gift k: a non-empty text or a number
\* other than 0
Returned(response, k) ==
  /\ response.kind = "object" /\ response[k].present
  /\ \/ response[k].variantId.t = "string" /\ response[k].variantId.s # ""
     \/ response[k].variantId.t = "number" /\ response[k].variantId.n # 0

\* the id the lookup has returned, as a text
LookedUp(response, k) ==
  IF response[k].variantId.t = "string" THEN response[k].variantId.s
  ELSE NumeralOf(response[k].variantId.n)

\* C36: once loadGiftProducts has settled, in whatever way, giftProducts is set
\* and each gift has a non-empty variant id, the looked-up one if the lookup
\* returned one and the fallback id otherwise; processCartGifts never finds a
\* gift not loaded or not configured.
C36_LookupAlwaysConfigures ==
  /\ fn.settled =>
       /\ fn.giftProducts.loaded
       /\ \A k \in GiftKeys :
            /\ fn.giftProducts[k].variantId # ""
            /\ fn.giftProducts[k].variantId =
                 IF Returned(fn.last, k) THEN LookedUp(fn.last, k) ELSE fallbackVariantIds[k]
  /\ \A k \in GiftKeys : fn.verdict[k] \notin {"notLoaded", "notConfigured"}

\* processCartGifts has awaited a lookup that returned a number for one gift and
\* no variant id for the other, and found both configured
C36_Witness ==
  /\ fn.settled /\ fn.loads = {}
  /\ fn.last.kind = "object"
  /\ fn.last.gift5000.variantId = JsNumber(44) /\ fn.giftProducts.gift5000.variantId = "44"
  /\ ~fn.last.gift8000.present /\ fn.giftProducts.gift8000.variantId = fallbackVariantIds.gift8000
  /\ fn.verdict = [k \in GiftKeys |-> "configured"]

====
